---- MODULE Spec2Model ----
(***************************************************************************)
(* Browser session manager, tool handlers and selector fallback loops of   *)
(* mcp-bianca-tools and its calling scripts.                               *)
(*                                                                         *)
(* Time is counted in minutes: BROWSER_TIMEOUT (30 * 60 * 1000 ms) is 30   *)
(* and the reaper interval (60000 ms) is 1.  A handle that is null in the  *)
(* source is 0 here; browsers and pages are numbered from 1 in the order   *)
(* in which they are created.                                              *)
(***************************************************************************)
EXTENDS Integers, Sequences, FiniteSets, TLC

\* ------------------------------------------------------------------ bounds
NumCalls == 2        \* handler calls that can be in flight together
MaxBrowsers == 3     \* browser processes launched in one run
MaxPages == 4        \* pages created in one run
MaxTime == 32        \* the clock stops here
MaxRequests == 2     \* requests one caller issues in one run
MaxTicks == 1        \* single milliseconds the caller's clock counts
MaxText == 2         \* characters in a string parameter of a tool call
MaxExecs == 2        \* executeMCPTool calls in one run
MaxPath == 5         \* characters in a screenshot path
MaxNavs == 2         \* handleNavigate calls in one run
MaxObjectives == 2   \* objectives given to startAutonomousMode
MaxSkillCalls == 2   \* agents_manage_skills calls in one run
MaxRegisters == 2    \* registerSkill calls on one instance
MaxSessions == 2     \* executeTask calls of the navigator agent

\* ------------------------------------------------------- program constants
BROWSER_TIMEOUT == 30
ReaperInterval == 1
RequestTimeout == 30000

Null == 0
Slots == 1 .. NumCalls
BrowserIds == 1 .. MaxBrowsers
PageIds == 1 .. MaxPages

\* ----------------------------------------------------------- the catalogue
Catalogue ==
  { "puppeteer_navigate", "puppeteer_screenshot", "puppeteer_click",
    "puppeteer_type", "puppeteer_get_content", "puppeteer_new_tab",
    "open_browser", "puppeteer_navigate_and_screenshot",
    "ekyte_login", "ekyte_login_and_navigate", "ekyte_process_notifications",
    "ekyte_explore_section", "ekyte_manage_task", "ekyte_analyze_metrics",
    "ekyte_smart_search" }

\* Variant: a handler registered under a name that allTools does not declare.
toolHandlersUndeclared ==
  Catalogue \cup { "browser_open_url", "agents_list", "agents_get_details",
                   "agents_analyze", "agents_search", "agents_manage_skills",
                   "puppeteer_close" }

\* The keys of the toolHandlers map.
toolHandlers ==
  Catalogue \cup { "browser_open_url", "agents_list", "agents_get_details",
                   "agents_analyze", "agents_search", "agents_manage_skills" }

\* The names declared by allTools = puppeteerTools, browserTools, agentsTools.
allTools ==
  Catalogue \cup { "browser_open_url", "agents_list", "agents_get_details",
                   "agents_analyze", "agents_search", "agents_manage_skills" }

\* Names a tools/call request can carry besides those of the catalogue.
UnknownNames == { "puppeteer_close", "ekyte_logout", "" }

\* The argument a schema constrains: absent, or a string over a small
\* alphabet ("a" a letter, ":" and "/" the URL punctuation).
Missing == <<"missing">>
ArgInputs ==
  { Missing, <<>>, <<"a">>, <<"a", ":">>, <<"a", ":", "/", "a">>,
    <<":", "a">>, <<"a", "/", ":">>, <<"/">> }

IsString(arg) == arg # Missing

\* new URL(s) succeeds without a base exactly when s starts with a scheme:
\* one or more scheme characters, the first a letter, then ":".
RECURSIVE SchemeEnd(_, _)
SchemeEnd(s, i) ==
  IF i > Len(s) THEN 0
  ELSE IF s[i] = "a" THEN SchemeEnd(s, i + 1)
  ELSE IF s[i] = ":" /\ i > 1 THEN i
  ELSE 0

IsUrl(s) == SchemeEnd(s, 1) > 0

\* The handlers that parse a zod schema at their top.
ZodTools ==
  { "puppeteer_navigate", "puppeteer_new_tab", "open_browser",
    "puppeteer_screenshot", "puppeteer_click", "puppeteer_type" }

\* The schemas: z.string().url() for the first three, z.string().min(1) for
\* the others.
ZodAccepts(tool, arg) ==
  IF tool \in {"puppeteer_navigate", "puppeteer_new_tab", "open_browser"}
  THEN IsString(arg) /\ IsUrl(arg)
  ELSE IF tool \in {"puppeteer_screenshot", "puppeteer_click", "puppeteer_type"}
  THEN IsString(arg) /\ Len(arg) >= 1
  ELSE TRUE

\* The inputSchema declared for the tool in puppeteerTools: the required
\* string argument is present (the zod schema, where the handler has one).
SchemaOk(tool, arg) ==
  IF tool \in ZodTools THEN ZodAccepts(tool, arg)
  ELSE IF tool = "puppeteer_get_content" THEN TRUE
  ELSE IsString(arg)

\* Variant: handleNavigate without its NavigateSchema.parse.
ValidatesAfterNavigate(tool) == tool \in ZodTools \ {"puppeteer_navigate"}

\* Handlers that parse their params with a zod schema before anything else.
Validates(tool) == tool \in ZodTools

\* ------------------------------------------------------------------- state
VARIABLES
  browser,       \* let browser: Browser | null
  page,          \* let page: Page | null
  lastActivity,  \* let lastActivity = Date.now()
  now,           \* Date.now()
  cleanup,       \* the setInterval callback of startBrowserCleanup
  procs,         \* browser id -> "none" | "alive" | "dead"
  pageOf,        \* page id -> the browser it belongs to (0: not created)
  pageOpen,      \* page id -> not page.isClosed()
  calls,         \* slot -> the handler call running in it
  hist,          \* what the run has done so far (observations only)
  fb,            \* a selector fallback loop and the action that runs it
  comp,          \* a composite action: its steps and how it ended
  caller,        \* which transport the caller uses, and whether it awaits
  clock,         \* Date.now() of the calling process, in ms
  requestId,     \* private requestId = 1
  requests,      \* the requests issued so far, in the order issued
  outgoing,      \* request frames written and not yet read by the dispatcher
  incoming,      \* lines on the way to the caller's listeners
  inflight,      \* requests whose page action the dispatcher is running
  started,       \* the order in which the dispatcher started the actions
  client,        \* EkytePersistentTest: isConnected, ws, its last tool call
  script,        \* a scripted session run and its session log
  shot,          \* a screenshot call and the path it stores to
  nav,           \* one handleNavigate call: the URL asked for and returned
  coord,         \* AutonomousEkyteCoordinator: its queue, tasks and metrics
  db,            \* the skills database file of agents_manage_skills
  els,           \* one EvolutionaryLearningSystem instance and its file
  agent          \* EkyteNavigatorAgent: its skills and its sessions file

transport == << caller, clock, requestId, requests, outgoing, incoming,
                inflight, started >>

vars == << browser, page, lastActivity, now, cleanup, procs, pageOf,
           pageOpen, calls, hist, fb, comp, transport, client, script, shot,
           nav, coord, db, els, agent >>

tools == << browser, page, lastActivity, now, cleanup, procs, pageOf,
            pageOpen, calls, hist >>

earlier == << fb, comp, transport, client, script, shot >>
later == << nav, coord, db, els, agent >>

\* What the actions of one part of the model leave alone.
offTools == << fb, comp, transport, client, script, shot, later >>

session == << browser, page, lastActivity >>
engine == << procs, pageOf, pageOpen >>

\* pc: where the handler is suspended.  target: the handle the awaited call
\* was made on.  The other fields record what the call has done: launches
\* (puppeteer.launch calls), mine (the browser it launched), used (the page
\* its page operations run on), entry (how the session was when it entered
\* ensureBrowser), prevNav and reaped (hist at that moment).
IdleCall ==
  [ pc |-> "idle", tool |-> "none", arg |-> Missing, target |-> Null,
    launches |-> 0, mine |-> Null, used |-> Null, prevNav |-> Null,
    entry |-> "none", reaped |-> FALSE, result |-> "none" ]

FbOff ==
  [ pc |-> "off", loop |-> "none", works |-> << >>, attempted |-> << >>,
    found |-> FALSE, used |-> "", logged |-> << >>, outcome |-> "none",
    method |-> "", error |-> [kind |-> "", message |-> "", selectors |-> << >>] ]

InitTools ==
  /\ browser = Null
  /\ page = Null
  /\ lastActivity = 0
  /\ now = 0
  /\ cleanup = [started |-> FALSE, lastTick |-> 0, pc |-> "idle", target |-> Null]
  /\ procs = [b \in BrowserIds |-> "none"]
  /\ pageOf = [p \in PageIds |-> Null]
  /\ pageOpen = [p \in PageIds |-> FALSE]
  /\ calls = [c \in Slots |-> IdleCall]
  \* hist.navPage: the page the last successful navigate ran on (0 after a
  \* teardown, a disconnect or a closed tab).  down: what last emptied the
  \* session.  reaped: a reaper tick saw the idle threshold passed and no
  \* handler has run since.  lastStep: when a handler last ran.  torn: a
  \* teardown completed.
  /\ hist = [ navPage |-> Null, down |-> "never", reaped |-> FALSE,
              lastStep |-> 0, torn |-> FALSE ]

CompOff ==
  [ pc |-> "off", tool |-> "none", n |-> 0, i |-> 1, ran |-> << >>,
    failed |-> {}, outcome |-> "none" ]

\* No caller, no request issued, no request frame written.
TransportOff ==
  /\ caller = [kind |-> "off", awaits |-> TRUE]
  /\ clock = 1
  /\ requestId = 1
  /\ requests = << >>
  /\ outgoing = << >>
  /\ inflight = {}
  /\ started = << >>
  /\ incoming = << >>

\* private ws: WebSocket | null = null; private isConnected = false
ClientOff ==
  [ isConnected |-> FALSE, ws |-> "null", execs |-> 0,
    last |-> [ tool |-> "none", params |-> << >>, isConnected |-> FALSE,
               ws |-> "null", path |-> "none", sent |-> << >>,
               spawned |-> << >> ] ]

\* No scripted run: an empty session log, nothing written.
ScriptOff ==
  [ pc |-> "off", kind |-> "none", step |-> 1, steps |-> << >>,
    errors |-> {}, ran |-> << >>, failed |-> {}, saved |-> << >>,
    ended |-> "none" ]

\* No screenshot call.
ShotOff ==
  [ pc |-> "off", tool |-> "none", path |-> << >>, stored |-> << >>,
    round |-> 0, first |-> << >> ]

\* No handleNavigate call: the page of a new session is on about:blank.
NavOff ==
  [ pc |-> "off", url |-> "", location |-> "about:blank", loaded |-> "",
    returned |-> "", error |-> "", round |-> 0 ]

\* No coordinator: the fields as the constructor leaves them.  successRate is
\* a rational number n / d in lowest terms, d > 0.
CoordOff ==
  [ pc |-> "off", isRunning |-> FALSE, taskQueue |-> << >>,
    currentTask |-> << >>, result |-> "none", clock |-> 1,
    tasksCompleted |-> 0, successRate |-> [n |-> 100, d |-> 1],
    autonomyLevel |-> 100, taskPatterns |-> << >>,
    generated |-> {}, settled |-> << >>, executions |-> << >>,
    lastError |-> << >>, succeeded |-> 0, stopCalled |-> FALSE ]

\* The skill difficulties, in the order of the enum.
Difficulties == {"basic", "intermediate", "advanced", "expert"}

\* The database handleManageSkills starts from when the file cannot be read.
EmptySkills ==
  [ totalSkills |-> 0,
    skillsByDifficulty |-> [d \in Difficulties |-> 0],
    skills |-> << >>,
    learningHistory |-> << >> ]

\* No agents_manage_skills call, no file.
DbOff ==
  [ pc |-> "off", exists |-> FALSE, file |-> EmptySkills, calls |-> 0,
    action |-> "none", before |-> EmptySkills, registered |-> << >> ]

\* createEmptyDatabase()
EmptyDatabase ==
  [ version |-> 2, totalSkills |-> 0,
    skillsByDifficulty |-> [d \in Difficulties |-> 0],
    skills |-> << >>, hasSessionData |-> TRUE, totalSessions |-> 0 ]

\* No EvolutionaryLearningSystem instance.
ElsOff ==
  [ pc |-> "off", exists |-> FALSE, file |-> EmptyDatabase,
    database |-> EmptyDatabase, assigned |-> FALSE, isInitialized |-> FALSE,
    started |-> 0, pending |-> {}, stored |-> 0, calls |-> << >>,
    registered |-> {} ]

\* currentSession: EkyteSession | null = null
NoSession ==
  [ endTime |-> "undefined", skillsAttempted |-> << >>,
    skillsLearned |-> << >>, observations |-> 0 ]

\* No EkyteNavigatorAgent instance, no files.
AgentOff ==
  [ pc |-> "off", skills |-> << >>, skillsFile |-> << >>,
    sessionsFile |-> << >>, currentSession |-> NoSession, toTry |-> << >>,
    finished |-> 0, outcome |-> "none", learnedOnce |-> {},
    restarted |-> FALSE ]

LaterOff ==
  /\ nav = NavOff /\ coord = CoordOff /\ db = DbOff
  /\ els = ElsOff /\ agent = AgentOff

EarlierOff ==
  /\ fb = FbOff /\ comp = CompOff /\ TransportOff
  /\ client = ClientOff /\ script = ScriptOff /\ shot = ShotOff

Init ==
  /\ LaterOff
  /\ InitTools
  /\ fb = FbOff /\ comp = CompOff /\ TransportOff
  /\ client = ClientOff /\ script = ScriptOff /\ shot = ShotOff

\* ----------------------------------------------------------------- helpers
Min(S) == CHOOSE x \in S : \A y \in S : x <= y

IsConnected(b) == procs[b] = "alive"

FreePages == {p \in PageIds : pageOf[p] = Null}

\* await browser.pages(): the open pages of b, oldest first.
OpenPagesOf(b) == {p \in PageIds : pageOf[p] = b /\ pageOpen[p]}

\* A handler has run a step: the observations that depend on it.
Stepped(h) == [h EXCEPT !.reaped = FALSE, !.lastStep = now]

\* ------------------------------------------------------------ ensureBrowser
\* lines 121-123, then the handler's `if (!page) throw` and its first page
\* operation, which read the global page in the same turn of the event loop.
FinishEnsure(c, rec, pg) ==
  /\ lastActivity' = now
  /\ calls' = [calls EXCEPT ![c] = [rec EXCEPT !.pc = "op", !.used = pg]]

\* lines 97-119 up to the first await: `if (!page || page.isClosed())`.
PageCheck(c, rec, br) ==
  IF page = Null \/ ~pageOpen[page]
  THEN /\ calls' = [calls EXCEPT ![c] = [rec EXCEPT !.pc = "pages", !.target = br]]
       /\ UNCHANGED lastActivity
  ELSE FinishEnsure(c, rec, page)

\* lines 79-95 up to the first await: `if (!browser || !browser.isConnected())`.
EnsureEntry(c, rec) ==
  IF browser = Null \/ ~IsConnected(browser)
  THEN /\ calls' = [calls EXCEPT ![c] =
                      [rec EXCEPT !.pc = "launching", !.launches = @ + 1,
                                  !.entry = hist.down]]
       /\ UNCHANGED lastActivity
  ELSE PageCheck(c, rec, browser)

\* A request reaches its handler: validation, then ensureBrowser up to its
\* first await.  Slots are interchangeable: a request takes the lowest free one.
Begin(c, reqs) ==
  /\ calls[c].pc = "idle"
  /\ \A d \in Slots : d < c => calls[d].pc # "idle"
  /\ \E req \in reqs :
       LET rec == [IdleCall EXCEPT
                     !.tool = req.tool, !.arg = req.arg, !.entry = "live",
                     !.prevNav = IF req.tool = "puppeteer_navigate"
                                 THEN hist.navPage ELSE Null,
                     !.reaped = hist.reaped /\ cleanup.pc = "idle"]
       IN IF Validates(req.tool) /\ ~ZodAccepts(req.tool, req.arg)
          THEN /\ calls' = [calls EXCEPT ![c] =
                              [rec EXCEPT !.pc = "done", !.result = "ValidationError"]]
               /\ UNCHANGED << lastActivity, hist >>
          \* every handler but handleOpenBrowser awaits ensureBrowser()
          ELSE IF req.tool = "open_browser"
          THEN /\ \E r \in {"ok", "INTERNAL_ERROR"} :
                    calls' = [calls EXCEPT ![c] = [rec EXCEPT !.pc = "done", !.result = r]]
               /\ UNCHANGED << lastActivity, hist >>
          ELSE /\ EnsureEntry(c, rec)
               /\ hist' = Stepped(hist)
  /\ UNCHANGED << browser, page, now, cleanup, engine >>
  /\ UNCHANGED offTools

\* A request for a tool that is not a puppeteer tool: the dispatcher looks the
\* name up in toolHandlers and rejects an unregistered name; a browser or
\* agents handler runs without the session.
Dispatch(c) ==
  /\ calls[c].pc = "idle"
  /\ \A d \in Slots : d < c => calls[d].pc # "idle"
  /\ \E name \in (toolHandlers \cup UnknownNames) \ Catalogue :
       \E r \in {"ok", "HandlerError"} :
         calls' = [calls EXCEPT ![c] =
                     [IdleCall EXCEPT !.tool = name, !.pc = "done",
                        !.result = IF name \in toolHandlers THEN r
                                   ELSE "UnknownTool"]]
  /\ UNCHANGED << session, now, cleanup, engine, hist >>
  /\ UNCHANGED offTools

\* browser.on('disconnected', ...) of any launched browser: lines 86-90.
OnDisconnected(b) ==
  /\ procs' = [procs EXCEPT ![b] = "dead"]
  /\ pageOpen' = [p \in PageIds |-> pageOpen[p] /\ pageOf[p] # b]
  /\ browser' = Null
  /\ page' = Null
  /\ UNCHANGED pageOf

\* lines 83-95: puppeteer.launch resolves with a new browser holding one page.
LaunchOk(c) ==
  /\ calls[c].pc = "launching"
  /\ {x \in BrowserIds : procs[x] = "none"} # {}
  /\ FreePages # {}
  /\ LET b == Min({x \in BrowserIds : procs[x] = "none"})
         p == Min(FreePages)
         rec == [calls[c] EXCEPT !.mine = b]
     IN /\ procs' = [procs EXCEPT ![b] = "alive"]
        /\ pageOf' = [pageOf EXCEPT ![p] = b]
        /\ pageOpen' = [pageOpen EXCEPT ![p] = TRUE]
        /\ browser' = b
        /\ PageCheck(c, rec, b)
  /\ hist' = Stepped(hist)
  /\ UNCHANGED << page, now, cleanup >>
  /\ UNCHANGED offTools

\* Variant: ensureBrowser launches a second time before it gives up.
LaunchFailRetries(c) ==
  /\ calls[c].pc = "launching"
  /\ calls' = IF calls[c].launches < 2
              THEN [calls EXCEPT ![c].launches = @ + 1]
              ELSE [calls EXCEPT ![c].pc = "done", ![c].result = "LaunchError"]
  /\ hist' = Stepped(hist)
  /\ UNCHANGED << session, now, cleanup, engine >>
  /\ UNCHANGED offTools

\* line 83: puppeteer.launch rejects; the rejection leaves ensureBrowser and
\* the handler (await ensureBrowser() is outside every try).
LaunchFail(c) ==
  /\ calls[c].pc = "launching"
  /\ calls' = [calls EXCEPT ![c].pc = "done", ![c].result = "LaunchError"]
  /\ hist' = Stepped(hist)
  /\ UNCHANGED << session, now, cleanup, engine >>
  /\ UNCHANGED offTools

\* lines 99-107: browser.pages() resolves (or rejects on a closed browser).
PagesResolve(c) ==
  /\ calls[c].pc = "pages"
  /\ LET t == calls[c].target
     IN IF ~IsConnected(t)
        THEN /\ calls' = [calls EXCEPT ![c].pc = "done", ![c].result = "EngineError"]
             /\ UNCHANGED page
        ELSE IF OpenPagesOf(t) # {}
        THEN /\ page' = Min(OpenPagesOf(t))
             /\ calls' = [calls EXCEPT ![c].pc = "viewport",
                                       ![c].target = Min(OpenPagesOf(t))]
        ELSE IF browser = Null
        THEN /\ calls' = [calls EXCEPT ![c].pc = "done", ![c].result = "TypeError"]
             /\ UNCHANGED page
        ELSE /\ calls' = [calls EXCEPT ![c].pc = "newpage", ![c].target = browser]
             /\ UNCHANGED page
  /\ hist' = Stepped(hist)
  /\ UNCHANGED << browser, lastActivity, now, cleanup, engine >>
  /\ UNCHANGED offTools

\* line 105: browser.newPage() resolves (or rejects on a closed browser).
NewPageResolve(c) ==
  /\ calls[c].pc = "newpage"
  /\ LET t == calls[c].target
     IN IF ~IsConnected(t)
        THEN /\ calls' = [calls EXCEPT ![c].pc = "done", ![c].result = "EngineError"]
             /\ UNCHANGED << page, pageOf, pageOpen >>
        ELSE /\ FreePages # {}
             /\ LET p == Min(FreePages)
                IN /\ pageOf' = [pageOf EXCEPT ![p] = t]
                   /\ pageOpen' = [pageOpen EXCEPT ![p] = TRUE]
                   /\ page' = p
                   /\ calls' = [calls EXCEPT ![c].pc = "viewport", ![c].target = p]
  /\ hist' = Stepped(hist)
  /\ UNCHANGED << browser, lastActivity, now, cleanup, procs >>
  /\ UNCHANGED offTools

\* lines 110-123: page.setViewport resolves (or rejects on a closed page);
\* page.setDefaultTimeout then reads the global page again.
ViewportResolve(c) ==
  /\ calls[c].pc = "viewport"
  /\ IF ~pageOpen[calls[c].target]
     THEN /\ calls' = [calls EXCEPT ![c].pc = "done", ![c].result = "EngineError"]
          /\ UNCHANGED lastActivity
     ELSE IF page = Null
     THEN /\ calls' = [calls EXCEPT ![c].pc = "done", ![c].result = "TypeError"]
          /\ UNCHANGED lastActivity
     ELSE FinishEnsure(c, calls[c], page)
  /\ hist' = Stepped(hist)
  /\ UNCHANGED << browser, page, now, cleanup, engine >>
  /\ UNCHANGED offTools

\* The handler's page operations end: with a result, or with an error that
\* the handler wraps (try/catch) or lets through.
OpResolve(c) ==
  /\ calls[c].pc = "op"
  /\ \E ok \in BOOLEAN :
       \* the handlers whose page operations do not sit in a try/catch that
       \* throws MCPError(PAGE_LOAD_FAILED)
       LET Unwrapped ==
             { "puppeteer_screenshot", "puppeteer_click", "puppeteer_type",
               "puppeteer_get_content", "puppeteer_new_tab", "open_browser" }
       IN
       /\ ok => pageOpen[calls[c].used]
       /\ calls' = [calls EXCEPT ![c].pc = "done",
                                 ![c].result =
                                    IF ok THEN "ok"
                                    ELSE IF calls[c].tool \in Unwrapped
                                    THEN "EngineError"
                                    ELSE "PAGE_LOAD_FAILED"]
  /\ hist' = [Stepped(hist) EXCEPT !.navPage =
                IF calls[c].tool = "puppeteer_navigate" /\ calls'[c].result = "ok"
                THEN calls[c].used ELSE @]
  /\ UNCHANGED << session, now, cleanup, engine >>
  /\ UNCHANGED offTools

\* The handler's promise settles and the slot is free for the next request.
Return(c) ==
  /\ calls[c].pc = "done"
  /\ calls' = [calls EXCEPT ![c] = IdleCall]
  /\ UNCHANGED << session, now, cleanup, engine, hist >>
  /\ UNCHANGED offTools

\* ------------------------------------------------------------- environment
\* A browser process dies (crash, or the user quits it).
Disconnect(b) ==
  /\ procs[b] = "alive"
  /\ OnDisconnected(b)
  /\ hist' = [hist EXCEPT !.navPage = Null, !.down = "disconnected"]
  /\ UNCHANGED << lastActivity, now, cleanup, calls >>
  /\ UNCHANGED offTools

\* The browser is headful: the user closes a tab.
UserClosesPage(p) ==
  /\ pageOf[p] # Null /\ pageOpen[p] /\ IsConnected(pageOf[p])
  /\ pageOpen' = [pageOpen EXCEPT ![p] = FALSE]
  /\ hist' = [hist EXCEPT !.navPage = Null]
  /\ UNCHANGED << session, now, cleanup, procs, pageOf, calls >>
  /\ UNCHANGED offTools

\* --------------------------------------------------------------- the reaper
StartBrowserCleanup ==
  /\ ~cleanup.started
  /\ cleanup' = [cleanup EXCEPT !.started = TRUE, !.lastTick = now]
  /\ UNCHANGED << session, now, engine, calls, hist >>
  /\ UNCHANGED offTools

TickDue == cleanup.started /\ now >= cleanup.lastTick + ReaperInterval

\* Variant: the tick compares with >= instead of >.
ReaperTickAtThreshold ==
  /\ TickDue
  /\ cleanup.pc = "idle"
  /\ IF browser # Null /\ now - lastActivity >= BROWSER_TIMEOUT
     THEN cleanup' = [cleanup EXCEPT !.lastTick = now, !.pc = "closing",
                                     !.target = browser]
     ELSE cleanup' = [cleanup EXCEPT !.lastTick = now]
  /\ hist' = [hist EXCEPT !.reaped = (now - lastActivity > BROWSER_TIMEOUT)]
  /\ UNCHANGED << session, now, engine, calls >>
  /\ UNCHANGED offTools

\* Variant: the tick compares with twice the threshold.
ReaperTickTwiceThreshold ==
  /\ TickDue
  /\ cleanup.pc = "idle"
  /\ IF browser # Null /\ now - lastActivity > 2 * BROWSER_TIMEOUT
     THEN cleanup' = [cleanup EXCEPT !.lastTick = now, !.pc = "closing",
                                     !.target = browser]
     ELSE cleanup' = [cleanup EXCEPT !.lastTick = now]
  /\ hist' = [hist EXCEPT !.reaped = (now - lastActivity > BROWSER_TIMEOUT)]
  /\ UNCHANGED << session, now, engine, calls >>
  /\ UNCHANGED offTools

\* lines 129-132: the interval callback up to `await browser.close()`.
ReaperTick ==
  /\ TickDue
  /\ cleanup.pc = "idle"
  /\ IF browser # Null /\ now - lastActivity > BROWSER_TIMEOUT
     THEN cleanup' = [cleanup EXCEPT !.lastTick = now, !.pc = "closing",
                                     !.target = browser]
     ELSE cleanup' = [cleanup EXCEPT !.lastTick = now]
  /\ hist' = [hist EXCEPT !.reaped = (now - lastActivity > BROWSER_TIMEOUT)]
  /\ UNCHANGED << session, now, engine, calls >>
  /\ UNCHANGED offTools

\* browser.close() ends the process; its 'disconnected' listener runs.
ReaperCloses ==
  /\ cleanup.pc = "closing"
  /\ IsConnected(cleanup.target)
  /\ OnDisconnected(cleanup.target)
  /\ hist' = [hist EXCEPT !.navPage = Null, !.down = "closed"]
  /\ UNCHANGED << lastActivity, now, cleanup, calls >>
  /\ UNCHANGED offTools

\* lines 133-134: close() has resolved.
ReaperDone ==
  /\ cleanup.pc = "closing"
  /\ ~IsConnected(cleanup.target)
  /\ browser' = Null
  /\ page' = Null
  /\ cleanup' = [cleanup EXCEPT !.pc = "idle", !.target = Null]
  /\ hist' = [hist EXCEPT !.navPage = Null, !.down = "closed", !.torn = TRUE]
  /\ UNCHANGED << lastActivity, now, engine, calls >>
  /\ UNCHANGED offTools

\* The clock moves to the next instant at which the reaper's comparison can
\* change: the idle threshold, then one reaper interval at a time.  A tick
\* that is due fires first, and close() ends within one interval.
NextInstant ==
  IF now - lastActivity < BROWSER_TIMEOUT
  THEN lastActivity + BROWSER_TIMEOUT
  ELSE now + ReaperInterval

Advance ==
  /\ ~TickDue
  /\ cleanup.pc = "idle"
  /\ NextInstant <= MaxTime
  /\ now' = NextInstant
  /\ UNCHANGED << session, cleanup, engine, calls, hist >>
  /\ UNCHANGED offTools

\* ------------------------------------------------------- selector fallback
\* handleEkyteSmartSearch.
searchSelectors ==
  << "input[type=\"search\"]", "input[placeholder*=\"buscar\"]",
     "input[placeholder*=\"search\"]", ".search-input", "#search" >>

\* The candidate selectors of a loop: emailSelectors of EkyteSimpleTest.run
\* (step 4), seletores.email of EkyteAgent.fazerLogin, searchSelectors.
CandidatesOf(loop) ==
  CASE loop = "EkyteSimpleTest.run" ->
         << "input[type=\"email\"]", "input[name=\"email\"]",
            "input[id=\"email\"]", "input[placeholder*=\"email\"]",
            "input[placeholder*=\"Email\"]", "input[class*=\"email\"]" >>
    [] loop = "EkyteAgent.fazerLogin" ->
         << "input[type=\"email\"]", "input[name=\"email\"]",
            "input[id=\"email\"]", "input[placeholder*=\"email\" i]",
            "input[placeholder*=\"e-mail\" i]", "#email", "#username",
            ".email-input", "[data-testid=\"email\"]" >>
    [] loop = "handleEkyteSmartSearch" -> searchSelectors

\* The caller-side loops log every attempt with its selector.
Logs(loop) == loop # "handleEkyteSmartSearch"

InitFallback ==
  /\ LaterOff
  /\ InitTools
  /\ comp = CompOff
  /\ TransportOff
  /\ client = ClientOff /\ script = ScriptOff /\ shot = ShotOff
  \* What one candidate's try block can do: run to its end, or throw at one
  \* of its awaits (the caller-side loops have one, the tool call).
  /\ \E loop \in {"EkyteSimpleTest.run", "EkyteAgent.fazerLogin",
                   "handleEkyteSmartSearch"} :
       \E w \in [1 .. Len(CandidatesOf(loop)) ->
                   IF loop = "handleEkyteSmartSearch"
                   THEN {"ok", "waitForSelector throws", "type throws",
                         "press throws"}
                   ELSE {"ok", "type throws"}] :
         fb = [FbOff EXCEPT !.pc = "loop", !.loop = loop, !.works = w,
                            !.outcome = "running"]

\* Variant: the loop without its `break`.
TryCandidateNoBreak ==
  /\ fb.pc = "loop"
  /\ LET list == CandidatesOf(fb.loop)
         i == Len(fb.attempted) + 1
         ok == fb.works[i] = "ok"
     IN fb' = [fb EXCEPT
                 !.attempted = Append(@, list[i]),
                 !.logged = IF Logs(fb.loop)
                            THEN Append(@, [selector |-> list[i], ok |-> ok])
                            ELSE @,
                 !.found = @ \/ ok,
                 !.used = IF ok THEN list[i] ELSE @,
                 !.pc = IF i = Len(list) THEN "after" ELSE "loop"]
  /\ UNCHANGED << tools, comp, transport, client, script, shot, later >>

\* One iteration of `for (const selector of ...) { try {...; break} catch {} }`.
TryCandidate ==
  /\ fb.pc = "loop"
  /\ LET list == CandidatesOf(fb.loop)
         i == Len(fb.attempted) + 1
         ok == fb.works[i] = "ok"
     IN fb' = [fb EXCEPT
                 !.attempted = Append(@, list[i]),
                 !.logged = IF Logs(fb.loop)
                            THEN Append(@, [selector |-> list[i], ok |-> ok])
                            ELSE @,
                 !.found = ok,
                 !.used = IF ok THEN list[i] ELSE @,
                 !.pc = IF ok \/ i = Len(list) THEN "after" ELSE "loop"]
  /\ UNCHANGED << tools, comp, transport, client, script, shot, later >>

\* The statements after the loop: `if (!found) throw new Error(...)` in the
\* caller-side loops; the manual search of handleEkyteSmartSearch, whose page
\* operations can throw into the handler's catch.
AfterLoop ==
  /\ fb.pc = "after"
  /\ IF fb.loop = "handleEkyteSmartSearch"
     THEN \E pageOk \in BOOLEAN :
            fb' = IF pageOk
                  THEN [fb EXCEPT !.pc = "done", !.outcome = "succeeded",
                                  !.method = IF fb.found THEN "search_field"
                                             ELSE "manual"]
                  ELSE [fb EXCEPT !.pc = "done", !.outcome = "failed",
                                  !.error = [kind |-> "PAGE_LOAD_FAILED",
                                             message |-> "Falha na busca",
                                             selectors |-> << >>]]
     ELSE fb' = IF fb.found
                THEN [fb EXCEPT !.pc = "done", !.outcome = "continues"]
                ELSE [fb EXCEPT !.pc = "done", !.outcome = "failed",
                                !.error = [kind |-> "Error",
                                           message |->
                                             IF fb.loop = "EkyteSimpleTest.run"
                                             THEN "Campo de email nao encontrado"
                                             ELSE "Nao foi possivel encontrar campo de email",
                                           selectors |-> << >>]]
  /\ UNCHANGED << tools, comp, transport, client, script, shot, later >>

\* -------------------------------------------------------- composite actions
MaxNotifications == 2

\* kind: "fatal" (the step's rejection reaches the handler's outer catch),
\* "swallowed" (the step sits in an inner try whose catch goes on),
\* "rescue" (runs only in the catch of the swallowed step before it),
\* "fallback" (the selector loop of handleEkyteSmartSearch).
Step(name, kind) == [name |-> name, kind |-> kind]

\* goto, waitForSelector, type, type, click, waitForNavigation.
LoginSteps ==
  << Step("goto login", "fatal"), Step("waitForSelector email", "fatal"),
     Step("type email", "fatal"), Step("type password", "fatal"),
     Step("click submit", "fatal"), Step("waitForNavigation", "fatal") >>

RECURSIVE NotificationSteps(_)
NotificationSteps(n) ==
  IF n = 0 THEN << >>
  ELSE Append(NotificationSteps(n - 1), Step("notification", "swallowed"))

\* The awaited steps of each composite handler, in program order; n is the
\* number of notifications the loop of handleEkyteProcessNotifications visits.
StepsOf(tool, n) ==
  CASE tool = "ekyte_login" ->
         LoginSteps \o << Step("url and title", "fatal"),
                          Step("screenshot", "fatal") >>
    [] tool = "ekyte_login_and_navigate" ->
         LoginSteps \o << Step("goto target", "fatal"),
                          Step("url and title", "fatal"),
                          Step("screenshot", "fatal") >>
    [] tool = "ekyte_process_notifications" ->
         LoginSteps \o << Step("screenshot inicial", "fatal"),
                          Step("find notifications", "fatal") >>
           \o NotificationSteps(n)
           \o << Step("screenshot final", "fatal") >>
    [] tool = "ekyte_explore_section" ->
         LoginSteps \o << Step("click section", "swallowed"),
                          Step("click section by text", "rescue"),
                          Step("url and title", "fatal"),
                          Step("screenshot", "fatal") >>
    [] tool = "ekyte_manage_task" ->
         LoginSteps \o << Step("click tarefas", "swallowed"),
                          Step("action", "fatal"),
                          Step("screenshot", "fatal") >>
    [] tool = "ekyte_analyze_metrics" ->
         LoginSteps \o << Step("evaluate metrics", "fatal"),
                          Step("screenshot", "fatal") >>
    [] tool = "ekyte_smart_search" ->
         LoginSteps \o << Step("searchSelectors loop", "fallback"),
                          Step("manual search", "rescue"),
                          Step("screenshot", "fatal") >>

InitComposite ==
  /\ LaterOff
  /\ InitTools
  /\ fb = FbOff
  /\ TransportOff
  /\ client = ClientOff /\ script = ScriptOff /\ shot = ShotOff
  /\ \E tool \in
         { "ekyte_login", "ekyte_login_and_navigate",
           "ekyte_process_notifications", "ekyte_explore_section",
           "ekyte_manage_task", "ekyte_analyze_metrics",
           "ekyte_smart_search" } :
       \E n \in 0 .. MaxNotifications :
         /\ (tool # "ekyte_process_notifications" => n = 0)
         /\ comp = [CompOff EXCEPT !.pc = "steps", !.tool = tool, !.n = n,
                                   !.outcome = "running"]

\* CompositeStep with every step wrapped in a catch that goes on.
CompositeStepCatchesAll ==
  /\ comp.pc = "steps"
  /\ comp.i <= Len(StepsOf(comp.tool, comp.n))
  /\ LET step == StepsOf(comp.tool, comp.n)[comp.i]
     IN IF step.kind = "rescue" /\ (comp.i - 1) \notin comp.failed
        THEN comp' = [comp EXCEPT !.i = @ + 1]
        ELSE \E ok \in BOOLEAN :
               comp' = IF ok
                       THEN [comp EXCEPT !.i = @ + 1, !.ran = Append(@, comp.i)]
                       ELSE [comp EXCEPT !.i = @ + 1, !.ran = Append(@, comp.i),
                                         !.failed = @ \cup {comp.i}]
  /\ UNCHANGED << tools, fb, transport, client, script, shot, later >>

\* The next awaited step settles.  A rescue step is skipped unless the step
\* before it has just failed.
CompositeStep ==
  /\ comp.pc = "steps"
  /\ comp.i <= Len(StepsOf(comp.tool, comp.n))
  /\ LET step == StepsOf(comp.tool, comp.n)[comp.i]
     IN IF step.kind = "rescue" /\ (comp.i - 1) \notin comp.failed
        THEN comp' = [comp EXCEPT !.i = @ + 1]
        ELSE \E ok \in BOOLEAN :
               comp' = IF ok
                       THEN [comp EXCEPT !.i = @ + 1, !.ran = Append(@, comp.i)]
                       ELSE IF step.kind \in {"swallowed", "fallback"}
                       THEN [comp EXCEPT !.i = @ + 1, !.ran = Append(@, comp.i),
                                         !.failed = @ \cup {comp.i}]
                       ELSE [comp EXCEPT !.pc = "done", !.ran = Append(@, comp.i),
                                         !.failed = @ \cup {comp.i},
                                         !.outcome = "PAGE_LOAD_FAILED"]
  /\ UNCHANGED << tools, fb, transport, client, script, shot, later >>

\* return successResponse(...)
CompositeReturn ==
  /\ comp.pc = "steps"
  /\ comp.i > Len(StepsOf(comp.tool, comp.n))
  /\ comp' = [comp EXCEPT !.pc = "done", !.outcome = "success"]
  /\ UNCHANGED << tools, fb, transport, client, script, shot, later >>

\* ---------------------------------------------------------- tool transport
\* A line on the channel towards the caller: a JSON response frame, a line
\* of log text, or a line that starts with '{' and is not JSON.
InitTransport ==
  /\ LaterOff
  /\ InitTools
  /\ fb = FbOff
  /\ comp = CompOff
  /\ caller \in [kind : {"stdio", "ws"}, awaits : BOOLEAN]
  /\ clock = 1
  /\ requestId = 1
  /\ requests = << >>
  /\ outgoing = << >>
  /\ inflight = {}
  /\ started = << >>
  \* What the dispatcher process has printed at start-up and the stream
  \* still holds when the first listener is registered: nothing, or one line.
  /\ incoming \in {<< >>, << [kind |-> "text", id |-> Null, error |-> FALSE] >>,
                   << [kind |-> "broken", id |-> Null, error |-> FALSE] >>}
  /\ client = ClientOff /\ script = ScriptOff /\ shot = ShotOff

\* new Promise(...): build the request, arm the timer, register the listener,
\* write the frame.  A caller that awaits sends only when its earlier
\* requests have settled.
SendRequest ==
  /\ caller.kind \in {"stdio", "ws"}
  /\ Len(requests) < MaxRequests
  /\ caller.awaits => \A r \in DOMAIN requests : requests[r].state # "pending"
  /\ LET id == IF caller.kind = "stdio" THEN clock ELSE requestId
     IN /\ requests' = Append(requests,
             [ id |-> id, state |-> "pending", by |-> "none",
               listener |-> TRUE, timer |-> TRUE,
               deadline |-> clock + RequestTimeout,
               resposta |-> << >>, discarded |-> FALSE ])
        /\ requestId' = IF caller.kind = "ws" THEN requestId + 1 ELSE requestId
  /\ outgoing' = Append(outgoing, Len(requests) + 1)
  /\ UNCHANGED << caller, clock, incoming, inflight, started >>
  /\ UNCHANGED << tools, fb, comp, client, script, shot, later >>

\* The dispatcher reads the next request frame and starts its page action.
DispatcherStart ==
  /\ outgoing # << >>
  /\ inflight' = inflight \cup {Head(outgoing)}
  /\ started' = Append(started, Head(outgoing))
  /\ outgoing' = Tail(outgoing)
  /\ UNCHANGED << caller, clock, requestId, requests, incoming >>
  /\ UNCHANGED << tools, fb, comp, client, script, shot, later >>

\* A page action ends and the dispatcher writes the response, which echoes
\* the identifier of the request.
ActionFinish ==
  /\ \E r \in inflight :
       \E error \in BOOLEAN :
         /\ inflight' = inflight \ {r}
         /\ incoming' = Append(incoming, [kind |-> "json", id |-> requests[r].id,
                                          error |-> error])
  /\ UNCHANGED << caller, clock, requestId, requests, outgoing, started >>
  /\ UNCHANGED << tools, fb, comp, client, script, shot, later >>

\* Variant: a listener that takes any JSON frame as its answer.
MatchesAnyFrame(line, id) == line.kind = "json"

\* json.id === comando.id / response.id === request.id
Matches(line, id) == line.kind = "json" /\ line.id = id

\* onData's loop over the lines received so far: the position of the first
\* line that answers request id, 0 when there is none or when JSON.parse
\* throws on a line that starts with '{' before one is found.
RECURSIVE ScanFrom(_, _, _)
ScanFrom(lines, id, k) ==
  IF k > Len(lines) THEN 0
  ELSE IF lines[k].kind = "text" THEN ScanFrom(lines, id, k + 1)
  ELSE IF lines[k].kind = "broken" THEN 0
  ELSE IF Matches(lines[k], id) THEN k
  ELSE ScanFrom(lines, id, k + 1)

\* clearTimeout, off, then resolve or reject; settling a promise that is
\* already settled changes nothing.
Settle(req, error) ==
  [req EXCEPT !.timer = FALSE, !.listener = FALSE,
              !.state = IF @ = "pending"
                        THEN (IF error THEN "rejected" ELSE "resolved") ELSE @,
              !.by = IF req.state = "pending" THEN "frame" ELSE @]

\* const onData = (data) => { resposta += data.toString(); ... }
onData(req, line) ==
  LET lines == Append(req.resposta, line)
      k == ScanFrom(lines, req.id, 1)
  IN IF k > 0
     THEN Settle([req EXCEPT !.resposta = lines], lines[k].error)
     ELSE [req EXCEPT !.resposta = lines, !.discarded = TRUE]

\* const messageHandler = (data: Buffer) => { ... }
messageHandler(req, line) ==
  IF Matches(line, req.id)
  THEN Settle(req, line.error)
  ELSE [req EXCEPT !.discarded = TRUE]

\* The channel emits the next line to every registered listener.
Deliver ==
  /\ incoming # << >>
  /\ requests' =
       [r \in DOMAIN requests |->
          IF ~requests[r].listener THEN requests[r]
          ELSE IF caller.kind = "stdio"
          THEN onData(requests[r], Head(incoming))
          ELSE messageHandler(requests[r], Head(incoming))]
  /\ incoming' = Tail(incoming)
  /\ UNCHANGED << caller, clock, requestId, outgoing, inflight, started >>
  /\ UNCHANGED << tools, fb, comp, client, script, shot, later >>

\* The setTimeout callback of a request: executarComando takes the listener
\* off and rejects, executeMCPViaWebSocket only rejects.
TimerFires ==
  /\ \E r \in DOMAIN requests :
       /\ requests[r].timer
       /\ clock >= requests[r].deadline
       /\ requests' =
            [requests EXCEPT
               ![r] = [@ EXCEPT !.timer = FALSE,
                                !.listener = IF caller.kind = "stdio"
                                             THEN FALSE ELSE @,
                                !.state = IF @ = "pending" THEN "rejected" ELSE @,
                                !.by = IF requests[r].state = "pending"
                                       THEN "timeout" ELSE @]]
  /\ UNCHANGED << caller, clock, requestId, outgoing, incoming, inflight,
                  started >>
  /\ UNCHANGED << tools, fb, comp, client, script, shot, later >>

\* Time passes in the calling process: a millisecond, or a whole timeout.
\* A timer that is due runs before the clock moves on, and a whole timeout
\* is followed only while a timer is armed.  Single milliseconds are counted
\* for executarComando, which reads the clock for its ids.
AdvanceClock ==
  /\ caller.kind \in {"stdio", "ws"}
  /\ \A r \in DOMAIN requests :
       requests[r].timer => clock < requests[r].deadline
  /\ \E d \in {1, RequestTimeout} :
       /\ d = 1 => (caller.kind = "stdio" /\ clock % RequestTimeout <= MaxTicks)
       /\ d = RequestTimeout => \E r \in DOMAIN requests : requests[r].timer
       /\ clock' = clock + d
  /\ UNCHANGED << caller, requestId, requests, outgoing, incoming, inflight,
                  started >>
  /\ UNCHANGED << tools, fb, comp, client, script, shot, later >>

\* ------------------------------------------------------- the tool client
\* Strings of at most n characters: a letter, an apostrophe, a space.
RECURSIVE Texts(_)
Texts(n) ==
  IF n = 0 THEN {<< >>}
  ELSE Texts(n - 1) \cup
       {Append(s, c) : s \in {x \in Texts(n - 1) : Len(x) = n - 1}, c \in {"a", "'", " "}}

\* JSON.stringify(params) for params = {text: <the string>}, one character
\* per element ('~' stands for the key and its colon).
Stringify(text) == << "{", "~", "\"" >> \o text \o << "\"", "}" >>

\* What /bin/sh makes of a piece of command line: the words, or that a
\* quote is left open.
RECURSIVE ShellWords(_, _, _, _, _, _)
ShellWords(chars, k, mode, cur, inWord, words) ==
  IF k > Len(chars)
  THEN IF mode # "none" THEN [ok |-> FALSE, words |-> << >>]
       ELSE [ok |-> TRUE,
             words |-> IF inWord THEN Append(words, cur) ELSE words]
  ELSE LET c == chars[k]
       IN IF mode = "single"
          THEN IF c = "'"
               THEN ShellWords(chars, k + 1, "none", cur, TRUE, words)
               ELSE ShellWords(chars, k + 1, mode, Append(cur, c), TRUE, words)
          ELSE IF mode = "double"
          THEN IF c = "\""
               THEN ShellWords(chars, k + 1, "none", cur, TRUE, words)
               ELSE ShellWords(chars, k + 1, mode, Append(cur, c), TRUE, words)
          ELSE IF c = "'"
          THEN ShellWords(chars, k + 1, "single", cur, TRUE, words)
          ELSE IF c = "\""
          THEN ShellWords(chars, k + 1, "double", cur, TRUE, words)
          ELSE IF c = " "
          THEN ShellWords(chars, k + 1, mode, << >>, FALSE,
                          IF inWord THEN Append(words, cur) ELSE words)
          ELSE ShellWords(chars, k + 1, mode, Append(cur, c), TRUE, words)

InitClient ==
  /\ LaterOff
  /\ InitTools
  /\ fb = FbOff /\ comp = CompOff /\ TransportOff
  /\ script = ScriptOff /\ shot = ShotOff
  /\ client = ClientOff

\* this.ws = new WebSocket('ws://localhost:3000')
connectWebSocket ==
  /\ client.ws = "null"
  /\ ~client.isConnected
  /\ client' = [client EXCEPT !.ws = "CONNECTING"]
  /\ UNCHANGED << tools, fb, comp, transport, script, shot, later >>

\* this.ws.on('open', ...)
SocketOpen ==
  /\ client.ws = "CONNECTING"
  /\ client' = [client EXCEPT !.ws = "OPEN", !.isConnected = TRUE]
  /\ UNCHANGED << tools, fb, comp, transport, script, shot, later >>

\* this.ws.on('error', ...)
SocketError ==
  /\ client.ws \in {"CONNECTING", "OPEN", "CLOSING", "CLOSED"}
  /\ client' = [client EXCEPT !.ws = "null", !.isConnected = TRUE]
  /\ UNCHANGED << tools, fb, comp, transport, script, shot, later >>

\* The socket starts closing or is closed, by the peer or by the network.
SocketCloses ==
  /\ \/ client.ws = "OPEN" /\ client' = [client EXCEPT !.ws = "CLOSING"]
     \/ client.ws \in {"OPEN", "CLOSING", "CONNECTING"}
          /\ client' = [client EXCEPT !.ws = "CLOSED"]
  /\ UNCHANGED << tools, fb, comp, transport, script, shot, later >>

\* this.mcpProcess.on('exit', ...)
ProcessExit ==
  /\ client.isConnected
  /\ client' = [client EXCEPT !.isConnected = FALSE]
  /\ UNCHANGED << tools, fb, comp, transport, script, shot, later >>

\* execSync(`... node run-mcp-tool.js ${tool} '${paramsStr}'`): the argument
\* run-mcp-tool.js receives for '${paramsStr}'; << "!" >> when the shell
\* rejects the command and nothing runs.
executeMCPViaProcess(params) ==
  LET parsed == ShellWords(<< "'" >> \o Stringify(params) \o << "'" >>, 1,
                           "none", << >>, FALSE, << >>)
  IN IF ~parsed.ok THEN << "!" >> ELSE parsed.words[1]

\* private async executeMCPTool(tool, params)
executeMCPTool ==
  /\ client.execs < MaxExecs
  /\ \E tool \in {"puppeteer_type", "puppeteer_click"} :
       \E params \in Texts(MaxText) :
         LET path == IF ~client.isConnected THEN "throw"
                     ELSE IF client.ws = "OPEN" THEN "ws" ELSE "process"
         IN client' =
              [client EXCEPT
                 !.execs = @ + 1,
                 !.last = [ tool |-> tool, params |-> params,
                            isConnected |-> client.isConnected,
                            ws |-> client.ws, path |-> path,
                            sent |-> IF path = "ws"
                                     THEN Stringify(params) ELSE << >>,
                            spawned |-> IF path = "process"
                                        THEN executeMCPViaProcess(params)
                                        ELSE << >> ]]
  /\ UNCHANGED << tools, fb, comp, transport, script, shot, later >>

\* ------------------------------------------------------- scripted sessions
\* The numbered steps of a run; step 0 of the persistent test is the start
\* of the dispatcher process.
FirstStep(kind) == IF kind = "persistent" THEN 0 ELSE 1
LastStep(kind) == IF kind = "session" THEN 5 ELSE 10

\* Variant: every catch records the failure and goes on.
OnFailureAlwaysRecords(kind, step) == "record"

\* What the run does when a step fails:
\*   "throw"   nothing is recorded, the error leaves run()
\*   "abort"   addStep(.., false, ..) and return
\*   "record"  addStep(.., false, ..) and go on
\*   "detail"  the failure is kept in the details of a step recorded as done
\*   "silent"  console.log only, go on
\*   "rethrow" the outer catch: errors.push, saveSessionLog, throw
OnFailure(kind, step) ==
  IF kind = "session"
  THEN IF step = 4 THEN "silent" ELSE "rethrow"
  ELSE IF step = 0 THEN "throw"
  ELSE IF step = 1 THEN "abort"
  ELSE IF step = 9 THEN "detail"
  ELSE "record"

InitScript ==
  /\ LaterOff
  /\ InitTools
  /\ fb = FbOff /\ comp = CompOff /\ TransportOff
  /\ client = ClientOff /\ shot = ShotOff
  \* EkyteSimpleTest.run, EkytePersistentTest.run, runEkyteSession
  /\ \E kind \in {"simple", "persistent", "session"} :
       script = [ScriptOff EXCEPT !.pc = "run", !.kind = kind,
                                  !.step = FirstStep(kind)]

\* The log as saveSession / saveSessionLog writes it.
Written(s) == << [steps |-> s.steps, errors |-> s.errors] >>

\* addStep(step, action, success, ...) / sessionData.steps.push(...); step 0
\* of the persistent test and step 4 of runEkyteSession add no entry.
Logged(s, success) ==
  IF s.step = 0 \/ (s.kind = "session" /\ s.step = 4) THEN s.steps
  ELSE Append(s.steps, [step |-> s.step, success |-> success])

\* The next scripted step ends: it worked, or it failed and the catch around
\* it decides what follows.
RunStep ==
  /\ script.pc = "run"
  /\ script.step <= LastStep(script.kind)
  /\ \E ok \in BOOLEAN :
       LET s == [script EXCEPT !.ran = Append(@, script.step),
                               !.failed = IF ok THEN @ ELSE @ \cup {script.step}]
           policy == OnFailure(script.kind, script.step)
       IN script' =
            IF ok
            THEN [s EXCEPT !.steps = Logged(script, TRUE), !.step = @ + 1]
            ELSE IF policy = "record"
            THEN [s EXCEPT !.steps = Logged(script, FALSE), !.step = @ + 1]
            ELSE IF policy = "detail"
            THEN [s EXCEPT !.steps = Logged(script, TRUE),
                           !.errors = @ \cup {script.step}, !.step = @ + 1]
            ELSE IF policy = "silent"
            THEN [s EXCEPT !.step = @ + 1]
            ELSE IF policy = "abort"
            THEN [s EXCEPT !.steps = Logged(script, FALSE), !.pc = "done",
                           !.ended = "returned"]
            ELSE IF policy = "rethrow"
            THEN [s EXCEPT !.errors = @ \cup {script.step}, !.pc = "done",
                           !.ended = "threw",
                           !.saved = Written([script EXCEPT
                                                !.errors = @ \cup {script.step}])]
            ELSE [s EXCEPT !.pc = "done", !.ended = "threw"]
  /\ UNCHANGED << tools, fb, comp, transport, client, shot, later >>

\* this.saveSession() / saveSessionLog(sessionData) after the last step.
SaveSession ==
  /\ script.pc = "run"
  /\ script.step > LastStep(script.kind)
  /\ script' = [script EXCEPT !.pc = "done", !.ended = "completed",
                              !.saved = Written(script)]
  /\ UNCHANGED << tools, fb, comp, transport, client, shot, later >>

\* ------------------------------------------------------- screenshot paths
RECURSIVE Paths(_)
Paths(n) ==
  IF n = 0 THEN {<< >>}
  ELSE Paths(n - 1) \cup
       {Append(s, c) : s \in {x \in Paths(n - 1) : Len(x) = n - 1}, c \in {"a", ".", "p", "n", "g", "P"}}

Extensions ==
  { << ".", "p", "n", "g" >>, << ".", "j", "p", "g" >>,
    << ".", "j", "p", "e", "g" >> }

Suffix(s, n) == SubSeq(s, Len(s) - n + 1, Len(s))

\* Variant: the pattern without its i flag.
MatchesExtensionExactly(path) ==
  \E ext \in Extensions :
    Len(path) >= Len(ext) /\ Suffix(path, Len(ext)) = ext

\* path.match(/\.(png|jpg|jpeg)$/i)
\* (the i flag: letters compare by their lower-case form)
MatchesExtension(path) ==
  LET Lower(c) ==
        CASE c = "P" -> "p"
          [] c = "N" -> "n"
          [] c = "G" -> "g"
          [] c = "J" -> "j"
          [] c = "E" -> "e"
          [] OTHER -> c
      LowerAll(s) == [k \in DOMAIN s |-> Lower(s[k])]
  IN \E ext \in Extensions :
       Len(path) >= Len(ext) /\ LowerAll(Suffix(path, Len(ext))) = ext

\* ScreenshotSchema requires a path of at least one character;
\* handleNavigateAndScreenshot takes its parameters as they come.
InitShot ==
  /\ LaterOff
  /\ InitTools
  /\ fb = FbOff /\ comp = CompOff /\ TransportOff
  /\ client = ClientOff /\ script = ScriptOff
  /\ \E tool \in {"puppeteer_screenshot", "puppeteer_navigate_and_screenshot"} :
       \* paths over the alphabet, and paths with the other two extensions:
       \* whole, cut short and in capitals
       \E path \in Paths(MaxPath) \cup
                   { << "a", ".", "j", "p", "g" >>,
                     << "a", ".", "j", "p", "e", "g" >>,
                     << "a", ".", "J", "P", "G" >>,
                     << "a", ".", "j", "p", "e" >>,
                     << ".", "J", "p", "e", "G" >>,
                     << "a", "j", "p", "g" >> } :
         /\ tool = "puppeteer_screenshot" => Len(path) >= 1
         /\ shot = [ShotOff EXCEPT !.pc = "call", !.tool = tool, !.path = path,
                                   !.round = 1, !.first = path]

\* The handler computes the path and page.screenshot stores the file there.
TakeScreenshot ==
  /\ shot.pc = "call"
  \* let path = ...; if (!path.match(...)) { path += '.png'; }
  /\ shot' = [shot EXCEPT
                !.pc = "done",
                !.stored = IF MatchesExtension(shot.path) THEN shot.path
                           ELSE shot.path \o << ".", "p", "n", "g" >>]
  /\ UNCHANGED << tools, fb, comp, transport, client, script, later >>

\* The caller asks again with the path the first call returned.
ScreenshotAgain ==
  /\ shot.pc = "done"
  /\ shot.round = 1
  /\ shot' = [shot EXCEPT !.pc = "call", !.path = shot.stored, !.round = 2]
  /\ UNCHANGED << tools, fb, comp, transport, client, script, later >>

\* ---------------------------------------------------------- specifications
\* One caller that awaits each request, every environment event, the reaper.
\* The requests: every navigate argument, and one request for a handler of
\* each other kind.
Spec ==
  Init /\ [][ \/ Begin(1, [tool : {"puppeteer_navigate"}, arg : ArgInputs]
                            \cup { [tool |-> "puppeteer_click", arg |-> <<"a">>],
                                   [tool |-> "ekyte_login", arg |-> Missing] })
              \/ LaunchOk(1)
              \/ LaunchFail(1)
              \/ PagesResolve(1)
              \/ NewPageResolve(1)
              \/ ViewportResolve(1)
              \/ OpResolve(1)
              \/ Return(1)
              \/ \E b \in BrowserIds : Disconnect(b)
              \/ \E p \in PageIds : UserClosesPage(p)
              \/ StartBrowserCleanup
              \/ ReaperTick
              \/ ReaperCloses
              \/ ReaperDone
              \/ Advance ]_vars

\* Requests that overlap: the server starts a handler for each request as it
\* arrives and awaits none of them before the next.
SpecRace ==
  Init /\ [][ \/ \E c \in Slots :
                   Begin(c, { [tool |-> "puppeteer_navigate", arg |-> <<"a", ":">>],
                              [tool |-> "puppeteer_click", arg |-> <<"a">>] })
              \/ \E c \in Slots : LaunchOk(c)
              \/ \E c \in Slots : LaunchFail(c)
              \/ \E c \in Slots : PagesResolve(c)
              \/ \E c \in Slots : ViewportResolve(c)
              \/ \E c \in Slots : OpResolve(c)
              \/ \E c \in Slots : Return(c)
              \/ \E b \in BrowserIds : Disconnect(b) ]_vars

\* Every tool of the catalogue with every argument, one request at a time.
SpecDispatch ==
  Init /\ [][ \/ Begin(1, [tool : Catalogue, arg : ArgInputs])
              \/ Dispatch(1)
              \/ LaunchOk(1)
              \/ LaunchFail(1)
              \/ PagesResolve(1)
              \/ NewPageResolve(1)
              \/ ViewportResolve(1)
              \/ OpResolve(1)
              \/ Return(1)
              \/ \E b \in BrowserIds : Disconnect(b)
              \/ \E p \in PageIds : UserClosesPage(p) ]_vars

\* One fallback loop, for every pattern of candidates that work.
SpecFallback ==
  InitFallback /\ [][ \/ TryCandidate
                      \/ AfterLoop ]_vars

\* One composite action, for every pattern of steps that fail.
SpecComposite ==
  InitComposite /\ [][ \/ CompositeStep
                       \/ CompositeReturn ]_vars

\* One caller on one transport, the dispatcher behind it.
SpecTransport ==
  InitTransport /\ [][ \/ SendRequest
                       \/ DispatcherStart
                       \/ ActionFinish
                       \/ Deliver
                       \/ TimerFires
                       \/ AdvanceClock ]_vars

\* The tool client of the persistent test and the events of its socket.
SpecClient ==
  InitClient /\ [][ \/ connectWebSocket
                    \/ SocketOpen
                    \/ SocketError
                    \/ SocketCloses
                    \/ ProcessExit
                    \/ executeMCPTool ]_vars

\* One scripted run, for every pattern of steps that fail.
SpecScript ==
  InitScript /\ [][ \/ RunStep
                    \/ SaveSession ]_vars

\* One screenshot call for every path, then a second with its result.
SpecShot ==
  InitShot /\ [][ \/ TakeScreenshot
                  \/ ScreenshotAgain ]_vars

\* ---------------------------------------------------------------- navigate
\* URLs a caller may ask for, and the addresses a load may end on.
Urls == {"http://a/", "http://b/", "http://c/"}

InitNav ==
  /\ InitTools
  /\ EarlierOff
  /\ nav = [NavOff EXCEPT !.pc = "idle"]
  /\ coord = CoordOff /\ db = DbOff /\ els = ElsOff /\ agent = AgentOff

\* const validated = NavigateSchema.parse(params); await ensureBrowser()
NavigateEntry ==
  /\ nav.pc \in {"idle", "returned", "threw"}
  /\ nav.round < MaxNavs
  /\ \E u \in Urls \cup {"not a url"} :
       nav' = IF u \in Urls
              THEN [nav EXCEPT !.pc = "ensure", !.url = u, !.loaded = "",
                               !.returned = "", !.error = "",
                               !.round = @ + 1]
              ELSE [nav EXCEPT !.pc = "threw", !.url = u, !.loaded = "",
                               !.returned = "", !.error = "ZodError",
                               !.round = @ + 1]
  /\ UNCHANGED << tools, earlier, coord, db, els, agent >>

\* ensureBrowser resolves with a page, with none, or rejects.
NavigateEnsured ==
  /\ nav.pc = "ensure"
  /\ \E outcome \in {"page", "no page", "rejects"} :
       nav' = CASE outcome = "page" -> [nav EXCEPT !.pc = "goto"]
                [] outcome = "no page" ->
                     [nav EXCEPT !.pc = "threw", !.error = "PAGE_LOAD_FAILED"]
                [] OTHER ->
                     [nav EXCEPT !.pc = "threw", !.error = "BROWSER_ERROR"]
  /\ UNCHANGED << tools, earlier, coord, db, els, agent >>

\* await page.goto(validated.url, {waitUntil: 'networkidle2', ...}) resolves
\* with the page on the address the load ended on (nav.url, or any address the
\* site redirects to), or rejects.
GotoSettles ==
  /\ nav.pc = "goto"
  /\ \/ \E l \in Urls :
          nav' = [nav EXCEPT !.pc = "settle", !.location = l, !.loaded = l]
     \/ nav' = [nav EXCEPT !.pc = "threw", !.error = "PAGE_LOAD_FAILED"]
  /\ UNCHANGED << tools, earlier, coord, db, els, agent >>

\* During the 5 s pause the page's own script may move it once more.
PageRedirects ==
  /\ nav.pc = "settle"
  /\ nav.location = nav.loaded
  /\ \E l \in Urls \ {nav.location} :
       nav' = [nav EXCEPT !.location = l]
  /\ UNCHANGED << tools, earlier, coord, db, els, agent >>

\* return successResponse({ url: validated.url }, ...)
NavigateReturns ==
  /\ nav.pc = "settle"
  /\ nav' = [nav EXCEPT !.pc = "returned", !.returned = nav.url]
  /\ UNCHANGED << tools, earlier, coord, db, els, agent >>

SpecNav ==
  InitNav /\ [][ \/ NavigateEntry
                 \/ NavigateEnsured
                 \/ GotoSettles
                 \/ PageRedirects
                 \/ NavigateReturns ]_vars

\* ------------------------------------------------- autonomous coordinator
RECURSIVE Gcd(_, _)
Gcd(a, b) == IF b = 0 THEN a ELSE Gcd(b, a % b)

\* n / d as a rational in lowest terms (n >= 0, d > 0).
Reduce(n, d) == [n |-> n \div Gcd(n, d), d |-> d \div Gcd(n, d)]

\* Objectives by the keyword analyzeObjective finds in them.
Objectives == {"mapear", "testar", "outro"}

RECURSIVE ObjectiveLists(_)
ObjectiveLists(n) ==
  IF n = 0 THEN {<< >>}
  ELSE ObjectiveLists(n - 1) \cup
       { Append(s, o) : s \in {x \in ObjectiveLists(n - 1) : Len(x) = n - 1},
                        o \in Objectives }

\* generateTasksFromObjectives; analyzeObjective gives the priority, the
\* complexity (in tenths), the estimatedDuration and a context
\* { objective, analysisTime }.
generateTasksFromObjectives(queue, objectives, t) ==
  LET analyzeObjective(objective) ==
        [ priority |-> CASE objective = "mapear" -> 9
                         [] objective = "testar" -> 8
                         [] OTHER -> 5,
          complexity |-> CASE objective = "mapear" -> 8
                           [] objective = "testar" -> 7
                           [] OTHER -> 5,
          estimatedDuration |-> CASE objective = "mapear" -> 180000
                                  [] objective = "testar" -> 120000
                                  [] OTHER -> 60000,
          context |-> [objective |-> objective, analysisTime |-> t] ]
      task(i) ==
        LET analysis == analyzeObjective(objectives[i])
        IN [ id |-> << t, i - 1 >>, objective |-> objectives[i],
             priority |-> analysis.priority, context |-> analysis.context,
             estimatedDuration |-> analysis.estimatedDuration,
             status |-> "pending", retryCount |-> 0,
             maxRetries |-> IF analysis.complexity > 7 THEN 5 ELSE 3 ]
      pushed == queue \o [i \in DOMAIN objectives |-> task(i)]
      \* this.taskQueue.sort((a, b) => b.priority - a.priority): the sort is
      \* stable, a task goes after the tasks whose priority is not lower.
      Before(j, k) ==
        \/ pushed[j].priority > pushed[k].priority
        \/ pushed[j].priority = pushed[k].priority /\ j < k
  IN [n \in DOMAIN pushed |->
        pushed[CHOOSE k \in DOMAIN pushed :
                 Cardinality({j \in DOMAIN pushed : Before(j, k)}) = n - 1]]

\* selectNextTask: the index of the first pending task with the highest
\* calculateTaskScore, 0 for null; confidence_threshold stays at 0.8, so the
\* score has no bonus.
selectNextTask(queue, patterns) ==
  LET candidates == {i \in DOMAIN queue : queue[i].status = "pending"}
      calculateTaskScore(task) ==
        LET pattern == patterns[task.objective]
        IN task.priority * 10
           + (IF /\ pattern.attempts > 0
                 /\ 10 * pattern.successes > 8 * pattern.attempts
              THEN 20 ELSE 0)
           - task.retryCount * 5
      Score(i) == calculateTaskScore(queue[i])
      best == {i \in candidates : \A j \in candidates : Score(j) <= Score(i)}
  IN IF candidates = {} THEN 0 ELSE Min(best)

\* analyzeError, by the word it finds in the message of the error.
analyzeError(word) ==
  CASE word = "timeout" -> [type |-> "timeout", retryable |-> TRUE]
    [] word = "network" -> [type |-> "network", retryable |-> TRUE]
    [] word = "element" -> [type |-> "ui_change", retryable |-> FALSE]
    [] OTHER -> [type |-> "unknown", retryable |-> TRUE]

\* shouldRetryTask; failurePatterns is never written, so knownPattern is
\* undefined.  JavaScript values are a number, undefined or NaN: a missing
\* property is undefined, a - b is NaN unless both are numbers, and every
\* comparison with NaN is false.
shouldRetryTask(task, word, t) ==
  LET Number(v) == [type |-> "number", v |-> v]
      Undefined == [type |-> "undefined", v |-> 0]
      NaN == [type |-> "NaN", v |-> 0]
      Property(object, name) ==
        IF name \in DOMAIN object THEN Number(object[name]) ELSE Undefined
      Minus(a, b) ==
        IF a.type = "number" /\ b.type = "number"
        THEN Number(a.v - b.v) ELSE NaN
      Greater(a, b) ==
        IF a.type = "number" /\ b.type = "number" THEN a.v > b.v ELSE FALSE
      errorPattern == analyzeError(word)
      resourcesAvailable == TRUE
      timeRemaining ==
        Greater(Number(task.estimatedDuration * 2),
                Minus(Number(t), Property(task.context, "startTime")))
  IN resourcesAvailable /\ timeRemaining /\ task.retryCount < task.maxRetries

\* learnFromExecution, up to `await this.memoryManager.storeMemory`.
Learned(patterns, objective, success) ==
  [patterns EXCEPT ![objective] =
     [attempts |-> @.attempts + 1,
      successes |-> @.successes + (IF success THEN 1 ELSE 0)]]

\* calculateAutonomyLevel: Math.round(0.4 s + 0.3 a + 0.3 l), with
\* calculateAdaptationScore and calculateLearningScore (a rational).
calculateAutonomyLevel(successRate, patterns) ==
  LET size == Cardinality({o \in Objectives : patterns[o].attempts > 0})
      calculateAdaptationScore == Min({100, 5 * 10 + size * 5})
      successfulPatterns ==
        Cardinality({o \in Objectives :
                       /\ patterns[o].attempts > 0
                       /\ 10 * patterns[o].successes > 7 * patterns[o].attempts})
      calculateLearningScore ==
        IF size = 0 THEN [n |-> 0, d |-> 1]
        ELSE Reduce(successfulPatterns * 100, size)
      a == calculateAdaptationScore
      l == calculateLearningScore
      n == 4 * successRate.n * l.d + 3 * a * successRate.d * l.d
           + 3 * l.n * successRate.d
      d == 10 * successRate.d * l.d
  IN (2 * n + d) \div (2 * d)

\* updateAutonomyMetrics: the new successRate, in exact arithmetic.
NewSuccessRate(tasksCompleted, successRate, success) ==
  LET Times(r, k) == Reduce(r.n * k, r.d)
      Over(r, k) == Reduce(r.n, r.d * k)
      Plus(r, k) == Reduce(r.n + k * r.d, r.d)
      successCount == Over(Times(successRate, tasksCompleted), 100)
      newSuccessCount == Plus(successCount, IF success THEN 1 ELSE 0)
  IN Times(Over(newSuccessCount, tasksCompleted), 100)

InitCoord ==
  /\ InitTools
  /\ EarlierOff
  /\ nav = NavOff /\ db = DbOff /\ els = ElsOff /\ agent = AgentOff
  /\ coord = [CoordOff EXCEPT
                !.pc = "idle",
                \* taskPatterns: attempts = 0 stands for an absent key
                !.taskPatterns = [o \in Objectives |->
                                    [attempts |-> 0, successes |-> 0]]]

\* startAutonomousMode(objectives) up to the call of executeAutonomousLoop
StartAutonomousMode ==
  /\ coord.pc = "idle"
  /\ \E objectives \in ObjectiveLists(MaxObjectives) \ {<< >>} :
       LET queue == generateTasksFromObjectives(coord.taskQueue, objectives,
                                                coord.clock)
           ids == {queue[i].id : i \in DOMAIN queue}
       IN coord' = [coord EXCEPT
                      !.pc = "loop", !.isRunning = TRUE, !.taskQueue = queue,
                      !.generated = ids,
                      !.settled = [i \in ids |-> 0],
                      !.executions = [i \in ids |-> 0],
                      !.lastError = [i \in ids |-> "none"],
                      !.clock = @ + 1]
  /\ UNCHANGED << tools, earlier, nav, db, els, agent >>

\* One test of the while condition, selectNextTask, and executeTaskAutonomously
\* up to `await this.ekyteAgent.executeTask`.
LoopHead ==
  /\ coord.pc = "loop"
  /\ LET k == selectNextTask(coord.taskQueue, coord.taskPatterns)
     IN IF coord.isRunning /\ Len(coord.taskQueue) > 0 /\ k > 0
        THEN coord' = [coord EXCEPT
                         !.pc = "executing",
                         !.currentTask = coord.taskQueue[k].id,
                         !.taskQueue[k].status = "executing",
                         !.executions[coord.taskQueue[k].id] = @ + 1,
                         !.clock = @ + 1]
        ELSE coord' = [coord EXCEPT !.pc = "done"]
  /\ UNCHANGED << tools, earlier, nav, db, els, agent >>

\* ekyteAgent.executeTask resolves: task.status = 'completed'; then
\* learnFromExecution up to `await this.memoryManager.storeMemory`.
AgentResolves ==
  /\ coord.pc = "executing"
  /\ LET k == CHOOSE i \in DOMAIN coord.taskQueue :
                     coord.taskQueue[i].id = coord.currentTask
         task == coord.taskQueue[k]
     IN coord' = [coord EXCEPT
                    !.pc = "storing", !.result = "success",
                    !.taskQueue[k].status = "completed",
                    !.settled[task.id] = @ + 1,
                    !.taskPatterns = Learned(@, task.objective, TRUE),
                    !.clock = @ + 1]
  /\ UNCHANGED << tools, earlier, nav, db, els, agent >>

\* ekyteAgent.executeTask rejects: the catch block, which either runs the
\* task again or marks it failed and goes on to learnFromExecution.
AgentRejects ==
  /\ coord.pc = "executing"
  /\ \E word \in {"timeout", "network", "element", "other"} :
       LET k == CHOOSE i \in DOMAIN coord.taskQueue :
                     coord.taskQueue[i].id = coord.currentTask
           task == coord.taskQueue[k]
           shouldRetry == shouldRetryTask(task, word, coord.clock)
       IN IF shouldRetry /\ task.retryCount < task.maxRetries
          THEN coord' = [coord EXCEPT
                           !.taskQueue[k].retryCount = @ + 1,
                           !.taskQueue[k].status = "executing",
                           !.executions[task.id] = @ + 1,
                           !.lastError[task.id] = word,
                           !.clock = @ + 1]
          ELSE coord' = [coord EXCEPT
                           !.pc = "storing", !.result = "failure",
                           !.taskQueue[k].status = "failed",
                           !.settled[task.id] = @ + 1,
                           !.lastError[task.id] = word,
                           !.taskPatterns = Learned(@, task.objective, FALSE),
                           !.clock = @ + 1]
  /\ UNCHANGED << tools, earlier, nav, db, els, agent >>

\* storeMemory resolves: updateAutonomyMetrics(result), then the queue loses
\* the tasks with the id of currentTask.
StoreMemoryResolves ==
  /\ coord.pc = "storing"
  /\ LET tasksCompleted == coord.tasksCompleted + 1
         successRate == NewSuccessRate(tasksCompleted, coord.successRate,
                                       coord.result = "success")
         Keep(t) == t.id # coord.currentTask
     IN coord' = [coord EXCEPT
                    !.pc = "loop",
                    !.tasksCompleted = tasksCompleted,
                    !.succeeded = @ + (IF coord.result = "success" THEN 1 ELSE 0),
                    !.successRate = successRate,
                    !.autonomyLevel =
                       calculateAutonomyLevel(successRate, coord.taskPatterns),
                    !.taskQueue = SelectSeq(@, Keep)]
  /\ UNCHANGED << tools, earlier, nav, db, els, agent >>

\* storeMemory rejects: learnFromExecution has no catch, so the rejection
\* leaves executeAutonomousLoop and startAutonomousMode.
StoreMemoryRejects ==
  /\ coord.pc = "storing"
  /\ coord' = [coord EXCEPT !.pc = "threw"]
  /\ UNCHANGED << tools, earlier, nav, db, els, agent >>

\* stopAutonomousMode(), called while the loop is suspended
StopAutonomousMode ==
  /\ coord.pc \in {"executing", "storing"}
  /\ coord.isRunning
  /\ coord' = [coord EXCEPT !.isRunning = FALSE, !.stopCalled = TRUE]
  /\ UNCHANGED << tools, earlier, nav, db, els, agent >>

SpecCoord ==
  InitCoord /\ [][ \/ StartAutonomousMode
                   \/ LoopHead
                   \/ AgentResolves
                   \/ AgentRejects
                   \/ StoreMemoryResolves
                   \/ StoreMemoryRejects
                   \/ StopAutonomousMode ]_vars

\* ---------------------------------------------------------- skills database
\* generateSkillId(name); a name is a sequence of pieces: a run of lower-case
\* letters or digits, or one other character.
generateSkillId(name) ==
  LET \* .replace(/_+/g, '_')
      RECURSIVE Squeeze(_)
      Squeeze(x) ==
        IF Len(x) < 2 THEN x
        ELSE IF x[1] = "_" /\ x[2] = "_" THEN Squeeze(Tail(x))
        ELSE << x[1] >> \o Squeeze(Tail(x))
      \* name.toLowerCase()
      lower == [k \in DOMAIN name |-> IF name[k] = "A" THEN "a" ELSE name[k]]
      \* .replace(/[^a-z0-9]/g, '_')
      under == [k \in DOMAIN lower |->
                  IF lower[k] \in {" ", "_", "-", "!", "A"}
                  THEN "_" ELSE lower[k]]
      s == Squeeze(under)
      \* .replace(/^_|_$/g, '')
      a == IF s # << >> /\ Head(s) = "_" THEN Tail(s) ELSE s
  IN IF a # << >> /\ a[Len(a)] = "_" THEN SubSeq(a, 1, Len(a) - 1) ELSE a

\* analyzePageForSkills, with isNewSkillWorthy for elements without text and
\* assessDifficulty for elements without hasValidation and isComplex.
RECURSIVE analyzePageForSkills(_)
analyzePageForSkills(elements) ==
  IF elements = << >> THEN << >>
  ELSE LET isNewSkillWorthy(e) == e.type \in {"button", "form"}
           assessDifficulty(e) ==
             IF e.requiresAuth THEN "advanced" ELSE "basic"
           element == Head(elements)
           rest == analyzePageForSkills(Tail(elements))
       IN IF isNewSkillWorthy(element)
          THEN << [ name |-> << "handle", "_", element.type, "_",
                                element.identifier >>,
                    difficulty |-> assessDifficulty(element) ] >> \o rest
          ELSE rest

\* registerNewSkill(skills, skillData)
registerNewSkill(skills, skillData) ==
  LET skillId == generateSkillId(skillData.name)
  IN IF skillId \notin DOMAIN skills.skills
     THEN [ totalSkills |-> skills.totalSkills + 1,
            skillsByDifficulty |->
              [skills.skillsByDifficulty EXCEPT ![skillData.difficulty] = @ + 1],
            skills |->
              [i \in DOMAIN skills.skills \cup {skillId} |->
                 IF i = skillId
                 THEN [ name |-> skillData.name,
                        difficulty |-> skillData.difficulty,
                        usageCount |-> 0, successRate |-> 0, version |-> 1 ]
                 ELSE skills.skills[i]],
            learningHistory |-> Append(skills.learningHistory, skillId) ]
     ELSE skills

\* evolveSkills: successRate is kept in hundredths.
evolveSkills(skills) ==
  [skills EXCEPT !.skills =
     [i \in DOMAIN skills.skills |->
        LET skillData == skills.skills[i]
        IN IF /\ skillData.successRate > 90
              /\ skillData.usageCount > 10
              /\ skillData.difficulty = "basic"
           THEN [skillData EXCEPT !.difficulty = "intermediate",
                                  !.version = @ + 1]
           ELSE skillData]]

InitDb ==
  /\ InitTools
  /\ EarlierOff
  /\ nav = NavOff /\ coord = CoordOff /\ els = ElsOff /\ agent = AgentOff
  /\ LET \* Skills a stored database may hold: registered here, or used and
         \* rated by the learning system that writes the same file.
         StoredSkill(name) ==
           { [ name |-> name, difficulty |-> d, usageCount |-> u,
               successRate |-> r, version |-> 1 ] :
               d \in {"basic", "advanced"}, u \in {0, 11}, r \in {0, 95} }
         StoredDatabases ==
           { [ totalSkills |-> Cardinality(DOMAIN s),
               skillsByDifficulty |->
                 [d \in Difficulties |->
                    Cardinality({i \in DOMAIN s : s[i].difficulty = d})],
               skills |-> s,
               learningHistory |-> << >> ] :
             s \in { << >> }
                \cup { (<< "a" >> :> x) : x \in StoredSkill(<< "a" >>) }
                \cup { (<< "a" >> :> x) @@ (<< "b" >> :> y) :
                         x \in StoredSkill(<< "A" >>),
                         y \in StoredSkill(<< "b" >>) } }
     IN \/ db = [DbOff EXCEPT !.pc = "ready"]
        \/ \E s \in StoredDatabases :
             db = [DbOff EXCEPT !.pc = "ready", !.exists = TRUE, !.file = s]

\* handleManageSkills: load the file or start empty, act, save.  A call
\* carries skillData with register, contextData (uniqueElements) with
\* discover, neither with the other actions.
handleManageSkills ==
  /\ db.pc = "ready"
  /\ db.calls < MaxSkillCalls
  /\ LET skills == IF db.exists THEN db.file ELSE EmptySkills
         \* for (const newSkill of newSkills) registerNewSkill(skills, newSkill)
         RECURSIVE registerAll(_, _)
         registerAll(s, newSkills) ==
           IF newSkills = << >> THEN s
           ELSE registerAll(registerNewSkill(s, Head(newSkills)),
                            Tail(newSkills))
         SkillNames ==
           { << "a" >>, << "A" >>, << "a", " " >>, << "b" >>,
             << " ", "a", "_", "-", "b" >>, << "!" >> }
         PageElements ==
           { [type |-> "button", identifier |-> "a", requiresAuth |-> FALSE],
             [type |-> "form", identifier |-> "b", requiresAuth |-> TRUE],
             [type |-> "span", identifier |-> "a", requiresAuth |-> FALSE] }
         NoSkillData == [name |-> << >>, difficulty |-> "basic"]
         ManageSkillsParams ==
           { [action |-> "register", skillData |-> s, contextData |-> << >>] :
               s \in [name : SkillNames, difficulty : Difficulties] }
           \cup { [action |-> "discover", skillData |-> NoSkillData,
                   contextData |-> c] :
                    c \in { << >> } \cup { << e >> : e \in PageElements }
                                    \cup { << e, e >> : e \in PageElements } }
           \cup { [action |-> a, skillData |-> NoSkillData,
                   contextData |-> << >>] :
                    a \in {"list", "execute", "evolve", "analyze_context"} }
     IN \E params \in ManageSkillsParams :
          LET after ==
                CASE params.action = "discover" ->
                       registerAll(skills,
                                   analyzePageForSkills(params.contextData))
                  [] params.action = "register" ->
                       registerNewSkill(skills, params.skillData)
                  [] params.action = "evolve" -> evolveSkills(skills)
                  [] OTHER -> skills
          IN db' = [db EXCEPT
                      !.exists = TRUE, !.file = after, !.calls = @ + 1,
                      !.action = params.action, !.before = skills,
                      !.registered =
                         IF params.action = "register"
                         THEN generateSkillId(params.skillData.name)
                         ELSE << >>]
  /\ UNCHANGED << tools, earlier, nav, coord, els, agent >>

\* The file cannot be written: the call throws INTERNAL_ERROR.
WriteFileFails ==
  /\ db.pc = "ready"
  /\ db.calls < MaxSkillCalls
  /\ db' = [db EXCEPT !.calls = @ + 1, !.action = "threw",
                      !.before = IF db.exists THEN db.file ELSE EmptySkills,
                      !.registered = << >>]
  /\ UNCHANGED << tools, earlier, nav, coord, els, agent >>

SpecDb ==
  InitDb /\ [][ \/ handleManageSkills
                \/ WriteFileFails ]_vars

\* ------------------------------------------------ evolutionary learning
\* initializeDatabase, from the moment readFile settles: the database the
\* instance holds afterwards.
initializeDatabase(exists, file) ==
  LET migrateDatabase(d) ==
        IF d.version < 2
        THEN [d EXCEPT
                !.version = 2,
                !.hasSessionData = TRUE,
                !.totalSessions = IF d.hasSessionData THEN @ ELSE 1]
        ELSE d
      database == IF exists THEN migrateDatabase(file) ELSE EmptyDatabase
  IN [database EXCEPT !.totalSessions = @ + 1]

\* registerSkill, from `const skill` to the call of saveDatabase: the
\* database afterwards.
registerSkill(database, name, difficulty) ==
  LET id == generateSkillId(name)
      skill == [ name |-> name,
                 difficulty |-> IF difficulty = "undefined" THEN "basic"
                                ELSE difficulty ]
  IN [database EXCEPT
        !.skills = [i \in DOMAIN database.skills \cup {id} |->
                      IF i = id THEN skill ELSE database.skills[i]],
        !.totalSkills = @ + 1,
        !.skillsByDifficulty[skill.difficulty] = @ + 1]

\* new EvolutionaryLearningSystem(): the constructor has called
\* initializeDatabase() without awaiting it; its readFile is pending.
InitEls ==
  /\ InitTools
  /\ EarlierOff
  /\ nav = NavOff /\ coord = CoordOff /\ db = DbOff /\ agent = AgentOff
  /\ LET \* Files the instance may find: written by an earlier instance
         \* (version 2), or by agents_manage_skills (version 1, no
         \* sessionData).
         StoredFiles ==
           { [EmptyDatabase EXCEPT !.totalSessions = 1],
             [ version |-> 2, totalSkills |-> 1,
               skillsByDifficulty |-> [d \in Difficulties |->
                                         IF d = "basic" THEN 1 ELSE 0],
               skills |-> (<< "a" >> :>
                             [name |-> << "a" >>, difficulty |-> "basic"]),
               hasSessionData |-> TRUE, totalSessions |-> 1 ],
             [EmptyDatabase EXCEPT !.version = 1, !.hasSessionData = FALSE] }
     IN \/ els = [ElsOff EXCEPT !.pc = "on", !.started = 1, !.pending = {1}]
        \/ \E f \in StoredFiles :
             els = [ElsOff EXCEPT !.pc = "on", !.started = 1, !.pending = {1},
                                  !.exists = TRUE, !.file = f,
                                  !.stored = IF f.hasSessionData
                                             THEN f.totalSessions ELSE 1]

\* The call's part of registerSkill after ensureInitialized: build the
\* skill, store it, count it, and call saveDatabase, which serializes the
\* database and awaits writeFile.
Registering(call, database) ==
  [call EXCEPT !.pc = "saving",
               !.snapshot = registerSkill(database, call.name, call.difficulty)]

\* registerSkill(skillData) up to its first await that suspends:
\* ensureInitialized starts a load of its own when isInitialized is false.
\* skillData carries a name and, optionally, a difficulty.
RegisterSkillCall ==
  /\ els.pc = "on"
  /\ Len(els.calls) < MaxRegisters
  /\ \E name \in { << "a" >>, << "A" >>, << "b" >> },
          difficulty \in {"undefined", "basic", "advanced"} :
       LET call == [ name |-> name, difficulty |-> difficulty,
                     pc |-> "loading", load |-> 0,
                     snapshot |-> EmptyDatabase ]
       IN IF ~els.isInitialized
          THEN els' = [els EXCEPT
                         !.started = @ + 1,
                         !.pending = @ \cup {els.started + 1},
                         !.calls = Append(@, [call EXCEPT
                                                !.load = els.started + 1])]
          ELSE LET c == Registering(call, els.database)
               IN els' = [els EXCEPT
                            !.database = c.snapshot,
                            !.registered = @ \cup {generateSkillId(name)},
                            !.calls = Append(@, c)]
  /\ UNCHANGED << tools, earlier, nav, coord, db, agent >>

\* readFile of load k settles: the rest of initializeDatabase, then the rest
\* of the registerSkill call that awaited it.
LoadSettles ==
  /\ \E k \in els.pending :
       LET database == initializeDatabase(els.exists, els.file)
           waiting == {c \in DOMAIN els.calls :
                         els.calls[c].pc = "loading" /\ els.calls[c].load = k}
       IN IF waiting = {}
          THEN els' = [els EXCEPT
                         !.pending = @ \ {k}, !.database = database,
                         !.assigned = TRUE, !.isInitialized = TRUE]
          ELSE LET c == CHOOSE c \in waiting : TRUE
                   call == Registering(els.calls[c], database)
               IN els' = [els EXCEPT
                            !.pending = @ \ {k}, !.database = call.snapshot,
                            !.assigned = TRUE, !.isInitialized = TRUE,
                            !.registered = @ \cup {generateSkillId(call.name)},
                            !.calls[c] = call]
  /\ UNCHANGED << tools, earlier, nav, coord, db, agent >>

\* writeFile of a saveDatabase call settles.
SaveSettles ==
  /\ \E c \in DOMAIN els.calls :
       /\ els.calls[c].pc = "saving"
       /\ els' = [els EXCEPT !.exists = TRUE, !.file = els.calls[c].snapshot,
                             !.calls[c].pc = "done"]
  /\ UNCHANGED << tools, earlier, nav, coord, db, agent >>

SpecEls ==
  InitEls /\ [][ \/ RegisterSkillCall
                 \/ LoadSettles
                 \/ SaveSettles ]_vars

\* ------------------------------------------------------- navigator agent
\* initializeDefaultSkills: the default skills in the order they are added
\* (a skill's name stands for its randomUUID); a default skill is added when
\* no skill has its name ("Só adiciona se não existir").
RECURSIVE initializeDefaultSkills(_, _)
initializeDefaultSkills(skills, k) ==
  LET defaultSkills ==
        << [name |-> "Acesso Inicial", category |-> "navegacao"],
           [name |-> "Identificar Interface", category |-> "interface"],
           [name |-> "Navegar Lista de Tarefas", category |-> "tarefas"],
           [name |-> "Usar Filtros", category |-> "filtros"],
           [name |-> "Extrair Dados", category |-> "dados"] >>
  IN
  IF k > Len(defaultSkills) THEN skills
  ELSE LET d == defaultSkills[k]
           existingSkill == \E i \in DOMAIN skills : skills[i].name = d.name
           next == IF existingSkill THEN skills
                   ELSE Append(skills, [ name |-> d.name,
                                         category |-> d.category,
                                         learned |-> FALSE, attempts |-> 0 ])
       IN initializeDefaultSkills(next, k + 1)

\* Variant: saveSession that writes nothing.
saveSessionNowhere(sessions, currentSession) == sessions

\* saveSession: sessions.push(this.currentSession); writeFileSync(...,
\* JSON.stringify(sessions)): a Date becomes a string, an undefined property
\* is left out.
saveSession(sessions, currentSession) ==
  LET StringifySession(s) ==
        [s EXCEPT !.endTime = CASE @ = "Date" -> "string"
                                [] @ = "undefined" -> "absent"
                                [] OTHER -> @]
  IN [i \in 1..(Len(sessions) + 1) |->
        IF i <= Len(sessions) THEN StringifySession(sessions[i])
        ELSE StringifySession(currentSession)]

\* The position of the skill called name, 0 when there is none.
Find(skills, name) ==
  IF \E i \in DOMAIN skills : skills[i].name = name
  THEN Min({i \in DOMAIN skills : skills[i].name = name}) ELSE 0

\* skill.attempts++; skillsAttempted.push(skill.id)
Attempted(a, i) ==
  [a EXCEPT !.skills[i].attempts = @ + 1,
            !.currentSession.skillsAttempted = Append(@, a.skills[i].name)]

\* skill.learned = true; skillsLearned.push(skill.id)
LearnedSkill(a, i) ==
  [a EXCEPT !.skills[i].learned = TRUE,
            !.currentSession.skillsLearned = Append(@, a.skills[i].name),
            !.learnedOnce = @ \cup {a.skills[i].name}]

\* The next attemptSkill up to its screenshot, or analyzeSession up to
\* saveProgressToMemory when no skill is left to try.
NextAttempt(a) ==
  IF a.toTry = << >> THEN [a EXCEPT !.pc = "analyzing"]
  ELSE [Attempted(a, Head(a.toTry)) EXCEPT !.pc = "attempting"]

\* The end of executeTask on either path: endTime, saveSession, saveSkills.
Finish(a, outcome) ==
  LET ended == [a.currentSession EXCEPT !.endTime = "Date"]
  IN [a EXCEPT !.pc = "idle", !.currentSession = ended,
               !.sessionsFile = saveSession(@, ended),
               !.skillsFile = a.skills,
               !.finished = @ + 1, !.outcome = outcome, !.toTry = << >>]

\* new EkyteNavigatorAgent(): no files yet; loadSkills finds nothing,
\* initializeDefaultSkills adds the defaults and saves them.
InitAgent ==
  /\ InitTools
  /\ EarlierOff
  /\ nav = NavOff /\ coord = CoordOff /\ db = DbOff /\ els = ElsOff
  /\ agent = [AgentOff EXCEPT
                !.pc = "idle",
                !.skills = initializeDefaultSkills(<< >>, 1),
                !.skillsFile = initializeDefaultSkills(<< >>, 1)]

\* A new process constructs the agent again: loadSkills reads the skills
\* file, initializeDefaultSkills adds what is missing, saveSkills.
NewInstance ==
  /\ agent.pc = "idle"
  /\ agent.finished > 0 /\ ~agent.restarted
  /\ LET skills == initializeDefaultSkills(agent.skillsFile, 1)
     IN agent' = [agent EXCEPT !.skills = skills, !.skillsFile = skills,
                               !.currentSession = NoSession,
                               !.restarted = TRUE]
  /\ UNCHANGED << tools, earlier, nav, coord, db, els >>

\* executeTask up to the callTool of navigateToEkyte
ExecuteTask ==
  /\ agent.pc = "idle"
  /\ agent.finished < MaxSessions
  /\ LET a == [agent EXCEPT !.pc = "navigating",
                            !.currentSession = NoSession,
                            !.outcome = "none", !.restarted = FALSE]
         i == Find(a.skills, "Acesso Inicial")
     IN agent' = IF i > 0 THEN Attempted(a, i) ELSE a
  /\ UNCHANGED << tools, earlier, nav, coord, db, els >>

\* The navigation resolves: the skill is learned; after the pause
\* captureInitialState runs up to its screenshot.
NavigateResolves ==
  /\ agent.pc = "navigating"
  /\ LET a == [agent EXCEPT !.pc = "capturing",
                            !.currentSession.observations = @ + 1]
         i == Find(a.skills, "Acesso Inicial")
     IN agent' = IF i > 0 THEN LearnedSkill(a, i) ELSE a
  /\ UNCHANGED << tools, earlier, nav, coord, db, els >>

\* The navigation rejects: navigateToEkyte rethrows and the catch of
\* executeTask saves the session and throws.
NavigateRejects ==
  /\ agent.pc = "navigating"
  /\ agent' = Finish([agent EXCEPT !.currentSession.observations = @ + 2],
                     "threw")
  /\ UNCHANGED << tools, earlier, nav, coord, db, els >>

\* captureInitialState from its screenshot on, then attemptSkills up to the
\* screenshot of the first skill it tries.
CaptureSettles ==
  /\ agent.pc = "capturing"
  /\ \E outcome \in {"tool fails", "page unknown", "page known"} :
       LET i == Find(agent.skills, "Identificar Interface")
           a == CASE outcome = "tool fails" ->
                       [agent EXCEPT !.currentSession.observations = @ + 1]
                  [] outcome = "page unknown" ->
                       IF i > 0 THEN Attempted(agent, i) ELSE agent
                  [] OTHER ->
                       IF i > 0
                       THEN [LearnedSkill(Attempted(agent, i), i) EXCEPT
                               !.currentSession.observations = @ + 1]
                       ELSE agent
           \* attemptSkills: the unlearned skills, least attempted first
           \* (a stable sort), at most 3
           unlearned == {k \in DOMAIN a.skills : ~a.skills[k].learned}
           Before(j, k) ==
             \/ a.skills[j].attempts < a.skills[k].attempts
             \/ a.skills[j].attempts = a.skills[k].attempts /\ j < k
           skillsToTry ==
             [n \in 1..Min({3, Cardinality(unlearned)}) |->
                CHOOSE k \in unlearned :
                  Cardinality({j \in unlearned : Before(j, k)}) = n - 1]
       IN agent' = NextAttempt([a EXCEPT !.toTry = skillsToTry])
  /\ UNCHANGED << tools, earlier, nav, coord, db, els >>

\* attemptSkill from its screenshot on, then the next skill or
\* analyzeSession.
AttemptSettles ==
  /\ agent.pc = "attempting"
  /\ LET i == Head(agent.toTry)
         tried == agent.skills[i].category \in {"tarefas", "filtros", "dados"}
     IN \E outcome \in {"tool fails", "success"}
                       \cup (IF tried THEN {"failure"} ELSE {}) :
          LET a == CASE outcome = "tool fails" ->
                          [agent EXCEPT !.currentSession.observations = @ + 1]
                     [] outcome = "success" -> LearnedSkill(agent, i)
                     [] OTHER -> agent
          IN agent' = NextAttempt([a EXCEPT !.toTry = Tail(@)])
  /\ UNCHANGED << tools, earlier, nav, coord, db, els >>

\* analyzeSession ends (saveProgressToMemory catches its own failure):
\* endTime, saveSession, the report.
AnalyzeSettles ==
  /\ agent.pc = "analyzing"
  /\ agent' = Finish([agent EXCEPT !.currentSession.observations = @ + 1],
                     "returned")
  /\ UNCHANGED << tools, earlier, nav, coord, db, els >>

SpecAgent ==
  InitAgent /\ [][ \/ NewInstance
                   \/ ExecuteTask
                   \/ NavigateResolves
                   \/ NavigateRejects
                   \/ CaptureSettles
                   \/ AttemptSettles
                   \/ AnalyzeSettles ]_vars

\* ------------------------------------------------------------------ claims
\* The call in slot c enters ensureBrowser in this step.
EntersEnsure(c) ==
  /\ calls[c].pc = "idle"
  /\ calls'[c].pc \notin {"idle", "done"}

\* The call in slot c leaves ensureBrowser normally in this step.
LeavesEnsure(c) ==
  /\ calls[c].pc \notin {"op", "done"}
  /\ calls'[c].pc = "op"

Live == browser # Null /\ IsConnected(browser) /\ page # Null /\ pageOpen[page]

\* C1: under every interleaving of handler calls and disconnects, at most one
\* launched browser is alive and two calls are never launching together.
C1_AtMostOneBrowser ==
  /\ Cardinality({b \in BrowserIds : procs[b] = "alive"}) <= 1
  /\ Cardinality({c \in Slots : calls[c].pc = "launching"}) <= 1

\* C2: a call that enters ensureBrowser on a live session leaves it at once
\* having launched nothing, created nothing and changed no handle; and a
\* navigate that follows a successful navigate, with no teardown, disconnect or
\* closed tab in between, runs on the same page and launches no browser.
C2_LiveSessionReused ==
  [][\A c \in Slots :
       /\ (EntersEnsure(c) /\ Live)
            => /\ calls'[c].pc = "op"
               /\ calls'[c].launches = 0
               /\ calls'[c].used = page
               /\ browser' = browser /\ page' = page
               /\ engine' = engine
       /\ (/\ LeavesEnsure(c)
           /\ calls'[c].tool = "puppeteer_navigate"
           /\ calls'[c].prevNav # Null
           /\ hist.navPage = calls'[c].prevNav)
            => /\ calls'[c].used = calls'[c].prevNav
               /\ calls'[c].launches = 0]_vars

\* C3 as stated: a call that enters ensureBrowser more than BROWSER_TIMEOUT
\* after the last step of any handler finds no live session and launches.
C3_IdleThenRelaunch ==
  [][\A c \in Slots :
       (EntersEnsure(c) /\ now - hist.lastStep > BROWSER_TIMEOUT)
         => calls'[c].pc = "launching"]_vars

\* C3 amended: when a reaper tick has seen lastActivity more than
\* BROWSER_TIMEOUT old, its close (if any) has completed and no handler has
\* run since that tick, the next call that enters ensureBrowser finds the
\* browser handle null and launches a browser, once.
C3_ReapedThenRelaunch ==
  [][\A c \in Slots :
       (EntersEnsure(c) /\ calls'[c].reaped)
         => /\ browser = Null
            /\ calls'[c].pc = "launching"
            /\ calls'[c].launches = 1]_vars

C3_Witness ==
  \E c \in Slots :
    /\ calls[c].reaped /\ calls[c].pc = "launching"
    /\ hist.torn
    /\ \E b \in BrowserIds : procs[b] = "dead"

\* C4: a reaper tick that finds a browser held and lastActivity more than
\* BROWSER_TIMEOUT old starts closing that browser, and when the close has
\* completed both handles are null and the browser is gone; any other tick
\* changes nothing of browser, page, lastActivity.
C4_ReaperTick ==
  [][(/\ (cleanup.started /\ cleanup'.lastTick # cleanup.lastTick)
          => (/\ now > cleanup.lastTick
              /\ (browser # Null /\ now - lastActivity > BROWSER_TIMEOUT)
                   => (cleanup'.pc = "closing" /\ cleanup'.target = browser)
              /\ ~(browser # Null /\ now - lastActivity > BROWSER_TIMEOUT)
                   => (/\ cleanup'.pc = "idle"
                       /\ session' = session
                       /\ engine' = engine))
      /\ (cleanup.pc = "closing" /\ cleanup'.pc = "idle")
          => (/\ browser' = Null /\ page' = Null
              /\ ~IsConnected(cleanup.target)
              /\ lastActivity' = lastActivity)
      /\ (cleanup.pc = "idle" /\ cleanup'.pc = "idle")
          => (cleanup'.lastTick = cleanup.lastTick \/ session' = session))]_vars

C4_Witness ==
  /\ hist.torn
  /\ cleanup.pc = "idle"
  /\ browser = Null /\ page = Null
  /\ \E b \in BrowserIds : procs[b] = "dead"
  /\ now - lastActivity > BROWSER_TIMEOUT

\* C5: when the browser the session holds disconnects, both handles become
\* null; and the call that then launches a browser leaves ensureBrowser, if
\* that browser is still connected, with the session holding that browser
\* and an open page of it.
C5_DisconnectThenRelaunch ==
  [][(/\ \A b \in BrowserIds :
          (browser = b /\ procs[b] = "alive" /\ procs'[b] = "dead")
            => (browser' = Null /\ page' = Null)
      /\ \A c \in Slots :
          (/\ LeavesEnsure(c)
           /\ calls'[c].entry = "disconnected"
           /\ procs'[calls'[c].mine] = "alive")
            => (/\ calls'[c].launches = 1
                /\ browser' = calls'[c].mine
                /\ page' # Null
                /\ pageOf'[page'] = calls'[c].mine
                /\ pageOpen'[page']
                /\ calls'[c].used = page'))]_vars

\* C6: when puppeteer.launch fails, the call ends with that error having
\* launched once; browser, page and lastActivity are what they were, the
\* browser handle is null (the session is not live) and no browser or page
\* has been created; a call that has ended only returns.
C6_LaunchFailure ==
  [][\A c \in Slots :
       /\ (calls[c].pc = "launching" /\ calls'[c].pc # "launching"
             /\ calls'[c].pc # "pages" /\ calls'[c].pc # "op")
            => /\ calls'[c].pc = "done"
               /\ calls'[c].result = "LaunchError"
               /\ calls'[c].launches = 1
               /\ calls'[c].mine = Null
               /\ session' = session
               /\ browser' = Null
               /\ engine' = engine
       /\ calls'[c].launches <= 1
       /\ (calls[c].pc = "done")
            => (calls'[c] = calls[c] \/ calls'[c] = IdleCall)]_vars

C6_Witness ==
  \E c \in Slots :
    /\ calls[c].pc = "done" /\ calls[c].result = "LaunchError"
    /\ calls[c].launches = 1
    /\ calls[c].entry = "disconnected"
    /\ browser = Null /\ page = Null
    /\ now > lastActivity

C8_ExhaustedListFails ==
  (fb.pc = "done" /\ ~fb.found)
    => /\ fb.outcome = "failed"
       /\ fb.error.selectors = fb.attempted
       /\ fb.attempted = CandidatesOf(fb.loop)

\* C9: a request whose argument does not satisfy its tool's schema ends with
\* a validation error without entering ensureBrowser.
C9_InvalidNeverEnsures ==
  \A c \in Slots :
    (calls[c].tool \in Catalogue /\ ~SchemaOk(calls[c].tool, calls[c].arg))
      => /\ calls[c].pc = "done"
         /\ calls[c].result = "ValidationError"
         /\ calls[c].launches = 0
         /\ calls[c].used = Null

\* C10: a navigate call whose url is not a valid URL ends with a validation
\* error in the step in which it starts: it never enters ensureBrowser,
\* launches nothing, and browser, page, lastActivity are unchanged.
C10_InvalidUrlRejected ==
  [][\A c \in Slots :
       (/\ calls[c].pc = "idle" /\ calls'[c].pc # "idle"
        /\ calls'[c].tool = "puppeteer_navigate"
        /\ ~(IsString(calls'[c].arg) /\ IsUrl(calls'[c].arg)))
         => /\ calls'[c].pc = "done"
            /\ calls'[c].result = "ValidationError"
            /\ calls'[c].launches = 0
            /\ calls'[c].used = Null
            /\ session' = session
            /\ engine' = engine]_vars

C10_Witness ==
  \E c \in Slots :
    /\ calls[c].tool = "puppeteer_navigate"
    /\ calls[c].result = "ValidationError"
    /\ IsString(calls[c].arg) /\ Len(calls[c].arg) >= 2
    /\ Live
    /\ lastActivity < now

C12_PrimitiveFailureClassified ==
  [][\A c \in Slots :
       (calls[c].pc = "op" /\ calls'[c].pc = "done"
          /\ calls[c].tool \in {"puppeteer_navigate", "puppeteer_click",
                                "puppeteer_type"})
         => (/\ calls'[c].result \in {"ok", "PAGE_LOAD_FAILED", "ELEMENT_NOT_FOUND"}
             /\ calls[c].tool = "puppeteer_navigate"
                  => calls'[c].result \in {"ok", "PAGE_LOAD_FAILED"}
             /\ calls[c].tool # "puppeteer_navigate"
                  => calls'[c].result \in {"ok", "ELEMENT_NOT_FOUND"})]_vars

C14_OnlyMatchingFrameSettles ==
  [][\A r \in DOMAIN requests :
       (requests[r].state = "pending" /\ requests[r].listener) =>
         (/\ (requests'[r].by = "frame") =>
                (/\ incoming # << >>
                 /\ incoming' = Tail(incoming)
                 /\ Head(incoming).kind = "json"
                 /\ Head(incoming).id = requests[r].id)
          /\ (incoming # << >> /\ incoming' = Tail(incoming)
                /\ ~(Head(incoming).kind = "json"
                      /\ Head(incoming).id = requests[r].id)) =>
                (requests'[r].state = "pending" /\ requests'[r].listener))]_vars

C14_Witness ==
  \E r \in DOMAIN requests :
    /\ requests[r].discarded
    /\ requests[r].by = "frame"
    /\ \E q \in DOMAIN requests :
         q # r /\ requests[q].id # requests[r].id /\ requests[q].by = "timeout"

\* C15: once the timeout of a request has expired the request is rejected,
\* none of its listeners is registered any more, and no later response
\* changes how it ended.
C15_TimeoutReleasesListener ==
  \A r \in DOMAIN requests :
    requests[r].by = "timeout" =>
      /\ requests[r].state = "rejected"
      /\ ~requests[r].listener

\* C16: the identifiers of one caller's requests strictly increase in the
\* order issued, so no two of its requests carry the same identifier.
C16_IdentifiersIncrease ==
  \A q, r \in DOMAIN requests : q < r => requests[q].id < requests[r].id

\* C17: for a caller that awaits each request before it sends the next, the
\* dispatcher starts the page actions in the order issued and never has two
\* of them in flight together.
C17_OneActionInFlight ==
  caller.awaits =>
    /\ \A k \in DOMAIN started : started[k] = k
    /\ Cardinality(inflight) <= 1

\* C18: a call of executeMCPTool goes over the WebSocket exactly when the
\* client is connected and its socket exists and is OPEN; in every other
\* connected state the subprocess receives the same parameters; when the
\* client is not connected nothing is sent and nothing is spawned.
C18_PathChoice ==
  LET call == client.last
  IN call.path # "none" =>
       /\ (call.path = "ws") <=> (call.isConnected /\ call.ws = "OPEN")
       /\ (call.path = "ws") => call.sent = Stringify(call.params)
       /\ (call.isConnected /\ call.ws # "OPEN") =>
            (call.path = "process" /\ call.spawned = Stringify(call.params))
       /\ ~call.isConnected =>
            (call.path = "throw" /\ call.sent = << >> /\ call.spawned = << >>)

\* C19: a scripted run in which one step failed has executed all its steps
\* and has written its session log with the failure record of that step.
C19_FailedStepStillLogged ==
  (script.pc = "done" /\ Cardinality(script.failed) = 1 /\ 0 \notin script.failed) =>
    /\ \A k \in 1 .. LastStep(script.kind) :
         \E j \in DOMAIN script.ran : script.ran[j] = k
    /\ script.saved # << >>
    /\ \A f \in script.failed :
         \/ f \in script.saved[1].errors
         \/ \E j \in DOMAIN script.saved[1].steps :
              script.saved[1].steps[j] = [step |-> f, success |-> FALSE]

\* C19 (amended): in the two test classes a failed step 1 ends the run with
\* nothing written (so does a failed start of the dispatcher), and a failed
\* later step is recorded and the run goes on to the end and writes the log;
\* in runEkyteSession a failed step 1, 2, 3 or 5 ends the run with the error
\* recorded and the log written, and a failed click of step 4 is not
\* recorded and the run goes on.
C19_FailurePolicy ==
  LET Ran == {script.ran[j] : j \in DOMAIN script.ran}
      class == script.kind \in {"simple", "persistent"}
      fatal == {f \in script.failed : IF class THEN f <= 1 ELSE f # 4}
      Entry(f) == [step |-> f, success |-> FALSE]
      InLog(f, log) == \E j \in DOMAIN log : log[j] = Entry(f)
  IN script.pc = "done" =>
       /\ \A f \in fatal :
            /\ \A k \in Ran : k <= f
            /\ class => /\ script.saved = << >>
                        /\ script.ended = IF f = 0 THEN "threw" ELSE "returned"
                        /\ f = 1 => InLog(f, script.steps)
            /\ ~class => /\ script.ended = "threw"
                         /\ script.saved # << >>
                         /\ f \in script.saved[1].errors
       /\ fatal = {} =>
            /\ script.ended = "completed"
            /\ Ran = FirstStep(script.kind) .. LastStep(script.kind)
            /\ script.saved = Written(script)
            /\ \A f \in script.failed :
                 /\ (class /\ f # 9) => InLog(f, script.saved[1].steps)
                 /\ (class /\ f = 9) => f \in script.saved[1].errors
                 /\ ~class => /\ ~InLog(f, script.saved[1].steps)
                              /\ f \notin script.saved[1].errors

C19_Witness ==
  /\ script.pc = "done"
  /\ script.kind = "simple"
  /\ script.failed = {6}
  /\ script.saved # << >>

\* C20: a path that does not end in .png, .jpg or .jpeg, as written, is
\* stored with '.png' appended once; a path that ends in one of them is
\* stored unchanged.
C20_PngAppendedOnce ==
  LET png == << ".", "p", "n", "g" >>
      Ends(ext) == /\ Len(shot.path) >= Len(ext)
                   /\ SubSeq(shot.path, Len(shot.path) - Len(ext) + 1,
                             Len(shot.path)) = ext
      hasExtension == \/ Ends(png)
                      \/ Ends(<< ".", "j", "p", "g" >>)
                      \/ Ends(<< ".", "j", "p", "e", "g" >>)
  IN shot.pc = "done" =>
       shot.stored = IF hasExtension THEN shot.path ELSE shot.path \o png

\* C20 (amended): letter case apart, a path that does not end in .png, .jpg
\* or .jpeg is stored with '.png' appended once, a path that ends in one of
\* them is stored unchanged, and a second call with the stored path stores
\* to that same path.
C20_PngAppendedOnceAnyCase ==
  LET png == << ".", "p", "n", "g" >>
      lower == [k \in DOMAIN shot.path |->
                  CASE shot.path[k] = "P" -> "p" [] shot.path[k] = "N" -> "n"
                    [] shot.path[k] = "G" -> "g" [] shot.path[k] = "J" -> "j"
                    [] shot.path[k] = "E" -> "e" [] OTHER -> shot.path[k]]
      Ends(ext) == /\ Len(lower) >= Len(ext)
                   /\ SubSeq(lower, Len(lower) - Len(ext) + 1, Len(lower)) = ext
      hasExtension == \/ Ends(png)
                      \/ Ends(<< ".", "j", "p", "g" >>)
                      \/ Ends(<< ".", "j", "p", "e", "g" >>)
  IN shot.pc = "done" =>
       /\ shot.stored = IF hasExtension THEN shot.path ELSE shot.path \o png
       /\ shot.round = 2 => shot.stored = shot.path

C20_Witness ==
  /\ shot.pc = "done"
  /\ shot.round = 2
  /\ shot.first = << "a", ".", "p", "n" >>
  /\ shot.stored = << "a", ".", "p", "n", ".", "p", "n", "g" >>


\* C21: on success navigate returns the URL the page is on after the load
\* and after any redirect, for every requested URL.
C21_ReturnsFinalUrl ==
  nav.pc = "returned" => nav.returned = nav.location


\* C22: no step sets the session's browser and page handles to null while
\* the browser they refer to is still running: neither the 'disconnected'
\* listener of an earlier browser nor the rest of a reaper teardown that
\* began on an earlier browser drops a newer, connected browser.
C22_StaleCallbackKeepsNewerSession ==
  [][ ~( /\ browser # Null
         /\ procs[browser] = "alive"
         /\ browser' = Null
         /\ procs'[browser] = "alive" ) ]_vars


\* C23: when a response frame carrying the identifier of a pending
\* executarComando request reaches its listener before the timeout, the
\* request settles with that frame, whatever lines arrived before it.
C23_MatchingFrameSettles ==
  [][ \A r \in DOMAIN requests :
        ( /\ caller.kind = "stdio"
          /\ incoming # << >>
          /\ incoming' = Tail(incoming)
          /\ requests[r].state = "pending"
          /\ requests[r].listener /\ requests[r].timer
          /\ Matches(Head(incoming), requests[r].id) )
        => requests'[r].by = "frame" ]_vars


\* C24: a task is marked failed after a retryable error (timeout, network,
\* unknown) only when no further retry is allowed, i.e. when retryCount has
\* reached maxRetries; and retryCount never exceeds maxRetries.
C24_RetriesUntilExhausted ==
  \A k \in DOMAIN coord.taskQueue :
    LET task == coord.taskQueue[k]
    IN /\ task.retryCount <= task.maxRetries
       /\ ( /\ task.status = "failed"
            /\ coord.lastError[task.id] # "none"
            /\ analyzeError(coord.lastError[task.id]).retryable )
          => task.retryCount = task.maxRetries

\* C25: once executeAutonomousLoop has ended without stopAutonomousMode
\* having been called, every task queued at the start has been brought to
\* completed or failed exactly once and has left the queue; at no time
\* is more than one task executing.
C25_EveryTaskSettledOnce ==
  /\ Cardinality({k \in DOMAIN coord.taskQueue :
                    coord.taskQueue[k].status = "executing"}) <= 1
  /\ \A id \in coord.generated : coord.settled[id] <= 1
  /\ (coord.pc \in {"done", "threw"} /\ ~coord.stopCalled)
       => /\ \A id \in coord.generated : coord.settled[id] = 1
          /\ coord.taskQueue = << >>

\* C26: successRate is the percentage of executed tasks that succeeded and
\* lies within 0..100, and autonomyLevel lies within 0..100.
C26_MetricsInRange ==
  /\ coord.successRate.n <= 100 * coord.successRate.d
  /\ coord.autonomyLevel \in 0..100
  /\ coord.tasksCompleted > 0 =>
       coord.successRate = Reduce(100 * coord.succeeded, coord.tasksCompleted)


\* C27: starting from a stored database whose totalSkills and per-difficulty
\* counters agree with its stored skills, every database saved by
\* agents_manage_skills still has both equalities; registering a skill whose
\* id already exists changes nothing.
C27_CountersMatchSkills ==
  /\ db.exists =>
       /\ db.file.totalSkills = Cardinality(DOMAIN db.file.skills)
       /\ \A d \in Difficulties :
            db.file.skillsByDifficulty[d] =
              Cardinality({i \in DOMAIN db.file.skills :
                             db.file.skills[i].difficulty = d})
  /\ ( /\ db.action = "register"
       /\ db.registered \in DOMAIN db.before.skills )
     => db.file = db.before


\* C28: after any sequence of registerSkill calls, totalSkills equals the
\* number of entries in skills and the skillsByDifficulty counters sum to
\* totalSkills.
C28_TotalSkillsCountsEntries ==
  els.assigned =>
    /\ els.database.totalSkills = Cardinality(DOMAIN els.database.skills)
    /\ els.database.skillsByDifficulty["basic"]
         + els.database.skillsByDifficulty["intermediate"]
         + els.database.skillsByDifficulty["advanced"]
         + els.database.skillsByDifficulty["expert"]
       = els.database.totalSkills

\* C29: an instance loads its database once, counts its session once, and
\* keeps in memory every skill registered since its first load.
C29_LoadedExactlyOnce ==
  /\ els.started <= 1
  /\ els.assigned =>
       /\ els.database.totalSessions = els.stored + 1
       /\ els.registered \subseteq DOMAIN els.database.skills


====
